---- MODULE Spec2Model ----
(***************************************************************************)
(* A model of coords-array: Index / Axis / Coordinates objects on a heap,  *)
(* the key-to-coordinates algorithm (slice_axes), the broadcast algorithm  *)
(* and the array-level broadcast_to.                                       *)
(*                                                                         *)
(* Objects live in a heap (a record of two sequences): an Axis holds a     *)
(* reference to its Index, a Coordinates holds a list of references to     *)
(* Axis objects.  Reference 0 is Python's None.  A raised exception is the *)
(* "err" field of an operation's result ("" when the call returns).        *)
(***************************************************************************)
EXTENDS Integers, Sequences, FiniteSets, TLC

\* ------------------------------------------------------------------ bounds
MaxNdim == 3
MaxKeyLen == 3
AxisSize == 4
MaxAliasNdim == 2
MaxUpdates == 2
MaxBroadcastNdim == 2
MaxArrayNdim == 2
SmallSize == 2

\* ------------------------------------------------------- program constants
\* CategoricalIndex's "no scale" sentinel (_NO_SCALE = object())
NO_SCALE == 0

NoneRef == 0
UnitNone == "None"
AxisNames == {"t", "z", "y"}
UNDEF_NAME == "#"

Max(a, b) == IF a >= b THEN a ELSE b
Min(a, b) == IF a <= b THEN a ELSE b

\* Python's floor division a // b (b # 0)
PyFloorDiv(a, b) == IF b > 0 THEN a \div b ELSE (0 - a) \div (0 - b)

Range(s) == {s[i] : i \in DOMAIN s}

\* --------------------------------------------------------------- Index
\* ScaledIndex.__init__ (unit defaults to None)
ScaledIndex(start, step, size, unit) ==
    [kind |-> "scaled", start |-> start, step |-> step, size |-> size,
     unit |-> unit, labels |-> <<>>, scale |-> NO_SCALE]

\* ScaledIndex.arange(size): cls(0.0, step=1.0, size)
ScaledIndex_arange(size) == ScaledIndex(0, 1, size, UnitNone)

\* CategoricalIndex.__init__(seq, scale=_NO_SCALE, unit=None)
CategoricalIndex(labels, scale, unit) ==
    [kind |-> "categorical", start |-> 0, step |-> 0, size |-> Len(labels),
     unit |-> unit, labels |-> labels, scale |-> scale]

\* Index.get_scale
get_scale(I) == IF I.kind = "scaled" THEN I.step ELSE I.scale

\* Index.get_size
get_size(I) == IF I.kind = "scaled" THEN I.size ELSE Len(I.labels)

\* ScaledIndex._stop
ScaledIndex_stop(I) == I.start + I.step * I.size

\* ScaledIndex.rescaled / CategoricalIndex.rescaled: a new Index object
rescaled(I, scale) ==
    IF I.kind = "scaled"
    THEN ScaledIndex(I.start, scale, I.size, I.unit)
    ELSE CategoricalIndex(I.labels, scale, I.unit)

\* A Python slice: hasStart/hasStop FALSE stand for None; a step of None is 1.
Slice(hs, start, he, stop, step) ==
    [hs |-> hs, start |-> start, he |-> he, stop |-> stop, step |-> step]

SliceAll == Slice(FALSE, 0, FALSE, 0, 1)

\* slice.indices(length) of the array engine's host language, step # 0
slice_indices(s, length) ==
    LET lower == IF s.step < 0 THEN 0 - 1 ELSE 0
        upper == IF s.step < 0 THEN length - 1 ELSE length
        start == IF ~s.hs THEN (IF s.step < 0 THEN upper ELSE lower)
                 ELSE IF s.start < 0 THEN Max(s.start + length, lower)
                 ELSE Min(s.start, upper)
        stop  == IF ~s.he THEN (IF s.step < 0 THEN lower ELSE upper)
                 ELSE IF s.stop < 0 THEN Max(s.stop + length, lower)
                 ELSE Min(s.stop, upper)
    IN [start |-> start, stop |-> stop, step |-> s.step]

\* ScaledIndex.__getitem__ for an integer key: [err, val]
ScaledIndex_getitem_int(I, key) ==
    IF I.step > 0
    THEN LET val == I.start + key * I.step
         IN IF val >= ScaledIndex_stop(I)
            THEN [err |-> "IndexError", val |-> 0]
            ELSE [err |-> "", val |-> val]
    ELSE LET val == ScaledIndex_stop(I) + key * I.step
         IN IF val <= I.start
            THEN [err |-> "IndexError", val |-> 0]
            ELSE [err |-> "", val |-> val]

\* ScaledIndex.__getitem__ for a slice key: [err, index]
ScaledIndex_getitem_slice(I, s) ==
    LET ind == slice_indices(s, I.size)
        ms  == IF ind.step > 0
               THEN ScaledIndex_getitem_int(I, ind.start)
               ELSE ScaledIndex_getitem_int(I, ind.stop - 1)
        m_step == ind.step * I.step
        size == Max(PyFloorDiv(ind.stop - ind.start, ind.step), 0)
    IN IF ms.err # ""
       THEN [err |-> ms.err, index |-> I]
       ELSE [err |-> "", index |-> ScaledIndex(ms.val, m_step, size, I.unit)]

\* The positions range(n)[s] selects, in order
RECURSIVE SelectFrom(_, _, _)
SelectFrom(pos, stop, step) ==
    IF (step > 0 /\ pos >= stop) \/ (step < 0 /\ pos <= stop)
    THEN <<>>
    ELSE <<pos>> \o SelectFrom(pos + step, stop, step)

SlicePositions(s, n) ==
    LET ind == slice_indices(s, n) IN SelectFrom(ind.start, ind.stop, ind.step)

\* CategoricalIndex.__getitem__ for a slice: CategoricalIndex(self._labels[key])
CategoricalIndex_getitem_slice(I, s) ==
    LET ps == SlicePositions(s, Len(I.labels))
    IN [err |-> "",
        index |-> CategoricalIndex([k \in 1..Len(ps) |-> I.labels[ps[k] + 1]],
                                   NO_SCALE, UnitNone)]

\* Index.__getitem__(slice), by variant
Index_getitem_slice(I, s) ==
    IF I.kind = "scaled" THEN ScaledIndex_getitem_slice(I, s)
    ELSE CategoricalIndex_getitem_slice(I, s)

\* Python's seq[i] for a position i that may be negative: [err, val]
PyItem(seq, i) ==
    LET j == IF i < 0 THEN i + Len(seq) ELSE i
    IN IF j < 0 \/ j >= Len(seq) THEN [err |-> "IndexError", val |-> 0]
       ELSE [err |-> "", val |-> seq[j + 1]]

\* ScaledIndex.subset / CategoricalIndex.subset: [err, index]
Index_subset(I, positions) ==
    IF I.kind = "scaled"
    THEN [err |-> "",
          index |-> CategoricalIndex(
              [k \in 1..Len(positions) |-> I.start + positions[k] * I.step],
              NO_SCALE, UnitNone)]
    ELSE IF \E k \in 1..Len(positions) : PyItem(I.labels, positions[k]).err # ""
         THEN [err |-> "IndexError", index |-> I]
         ELSE [err |-> "",
               index |-> CategoricalIndex(
                   [k \in 1..Len(positions) |-> PyItem(I.labels, positions[k]).val],
                   NO_SCALE, I.unit)]

\* ---------------------------------------------------------------- heap
\* Allocate an Index object; its reference is Len(H.ix) afterwards.
AllocIndex(H, I) == [H EXCEPT !.ix = Append(@, I)]

\* Axis.__init__(name, index=...): allocate an Axis object
AllocAxis(H, name, undef, indexRef) ==
    [H EXCEPT !.ax = Append(@, [name |-> name, undef |-> undef, index |-> indexRef])]

EmptyHeap == [ax |-> <<>>, ix |-> <<>>]

\* Axis.from_size(name, size): Axis with ScaledIndex.arange(size)
Axis_from_size(H, name, size) ==
    LET H1 == AllocIndex(H, ScaledIndex_arange(size))
    IN AllocAxis(H1, name, FALSE, Len(H1.ix))

\* UndefAxis.__init__: super().__init__("#"), so its index is None
UndefAxis(H) == AllocAxis(H, UNDEF_NAME, TRUE, NoneRef)

\* as_axis(obj, size) for a string obj
as_axis(H, obj, size) ==
    IF obj = UNDEF_NAME THEN UndefAxis(H) ELSE Axis_from_size(H, obj, size)

\* str(a) of a list element: an Axis prints its name, None prints "None"
StrOf(H, a) == IF a = NoneRef THEN "None" ELSE H.ax[a].name

\* [str(a) for a in list]
Names0(H, list) == [k \in 1..Len(list) |-> StrOf(H, list[k])]

\* isinstance(a, UndefAxis)
IsUndef(H, a) == a # NoneRef /\ H.ax[a].undef

\* Axis.scale / Axis.unit / Axis.index of a defined axis
Axis_scale(H, a) == get_scale(H.ix[H.ax[a].index])
Axis_unit(H, a) == H.ix[H.ax[a].index].unit

\* a == b as list membership evaluates it (identity first, then _AxisBase.__eq__
\* / UndefAxis.__eq__): two defined axes are equal iff their names are equal,
\* an UndefAxis or None equals only itself.
PyEq(H, a, b) ==
    \/ a = b
    \/ /\ a # NoneRef /\ b # NoneRef
       /\ ~H.ax[a].undef /\ ~H.ax[b].undef
       /\ H.ax[a].name = H.ax[b].name

\* a in lst
PyIn(H, a, lst) == \E k \in 1..Len(lst) : PyEq(H, lst[k], a)

\* hash/eq class of a list element inside set(value)
HashKey(H, a) ==
    IF a = NoneRef THEN <<"none", "", 0>>
    ELSE IF H.ax[a].undef THEN <<"undef", "", a>>
    ELSE <<"axis", H.ax[a].name, 0>>

\* Coordinates.__init__ without the duplication check
Coordinates_init_unchecked(H, value) ==
    [err |-> "", list |-> value]

\* Coordinates.__init__(value) for a list value: [err, list]
Coordinates_init(H, value) ==
    IF Len(value) > Cardinality({HashKey(H, value[k]) : k \in 1..Len(value)})
    THEN [err |-> "CoordinateError", list |-> <<>>]
    ELSE [err |-> "", list |-> value]

\* Coordinates.undef(ndim): [H, list]
RECURSIVE Coordinates_undef(_, _)
Coordinates_undef(H, ndim) ==
    IF ndim = 0 THEN [H |-> H, list |-> <<>>]
    ELSE LET r == Coordinates_undef(H, ndim - 1)
             H1 == UndefAxis(r.H)
         IN [H |-> H1, list |-> Append(r.list, Len(H1.ax))]

\* Coordinates.from_iterable(axes, shape) for a list of names, every size
\* AxisSize: [H, list]
RECURSIVE Coordinates_from_iterable(_, _)
Coordinates_from_iterable(H, names) ==
    IF names = <<>> THEN [H |-> H, list |-> <<>>]
    ELSE LET r == Coordinates_from_iterable(H, SubSeq(names, 1, Len(names) - 1))
             H1 == as_axis(r.H, names[Len(names)], AxisSize)
         IN [H |-> H1, list |-> Append(r.list, Len(H1.ax))]

\* ------------------------------------------------------------ Axis.slice_axis
\* One component of an indexing key.
Comp(k, sl, ndim, bool) == [k |-> k, sl |-> sl, ndim |-> ndim, bool |-> bool]
CInt == Comp("int", SliceAll, 0, FALSE)
CNone == Comp("none", SliceAll, 0, FALSE)
CEllipsis == Comp("ellipsis", SliceAll, 0, FALSE)
CList == Comp("list", SliceAll, 1, FALSE)
CSlice(s) == Comp("slice", s, 0, FALSE)
CArray(ndim, bool) == Comp("array", SliceAll, ndim, bool)

\* The positions a list component selects
ListPositions == <<1, 3>>

\* A slice_axis that binds the sliced Index to the axis it was called on
Axis_slice_axis_inplace(H, a, sl) ==
    IF a = NoneRef THEN [err |-> "AttributeError", H |-> H, ref |-> a]
    ELSE IF sl.k \notin {"slice", "list"} THEN [err |-> "", H |-> H, ref |-> a]
    ELSE IF H.ax[a].index = NoneRef
         THEN [err |-> IF sl.k = "slice" THEN "TypeError" ELSE "AttributeError",
               H |-> H, ref |-> a]
    ELSE LET I == H.ix[H.ax[a].index]
             r == IF sl.k = "slice" THEN Index_getitem_slice(I, sl.sl)
                  ELSE Index_subset(I, ListPositions)
         IN IF r.err # "" THEN [err |-> r.err, H |-> H, ref |-> a]
            ELSE LET H1 == AllocIndex(H, r.index)
                 IN [err |-> "", H |-> [H1 EXCEPT !.ax[a].index = Len(H1.ix)],
                     ref |-> a]

\* Axis.slice_axis(sl) on list element a: [err, H, ref]
Axis_slice_axis(H, a, sl) ==
    IF a = NoneRef THEN [err |-> "AttributeError", H |-> H, ref |-> a]
    ELSE IF sl.k \notin {"slice", "list"} THEN [err |-> "", H |-> H, ref |-> a]
    ELSE IF H.ax[a].index = NoneRef
         THEN [err |-> IF sl.k = "slice" THEN "TypeError" ELSE "AttributeError",
               H |-> H, ref |-> a]
    ELSE LET I == H.ix[H.ax[a].index]
             r == IF sl.k = "slice" THEN Index_getitem_slice(I, sl.sl)
                  ELSE Index_subset(I, ListPositions)
         IN IF r.err # "" THEN [err |-> r.err, H |-> H, ref |-> a]
            ELSE LET H1 == AllocIndex(H, r.index)
                     H2 == AllocAxis(H1, H.ax[a].name, H.ax[a].undef, Len(H1.ix))
                 IN [err |-> "", H |-> H2, ref |-> Len(H2.ax)]

\* ------------------------------------------------------------- slice_axes
\* (slice(None),) * n: the empty tuple when n <= 0
Fill(n) == [k \in 1..Max(n, 0) |-> CSlice(SliceAll)]

CountNone(comps) == Cardinality({k \in 1..Len(comps) : comps[k].k = "none"})

\* key.index(...): the first ellipsis of the tuple
FirstEllipsis(comps) ==
    CHOOSE i \in 1..Len(comps) :
        /\ comps[i].k = "ellipsis"
        /\ \A j \in 1..(i - 1) : comps[j].k # "ellipsis"

\* key.index(...) compares the components before the first ellipsis with
\* Ellipsis; comparing an array (of more than one element) has no truth value
IndexRaises(comps) ==
    /\ \E i \in 1..Len(comps) : comps[i].k = "ellipsis"
    /\ \E j \in 1..(FirstEllipsis(comps) - 1) : comps[j].k = "array"

\* slice_axes, the tuple branch: the expanded key _keys
ExpandKey(n, comps) ==
    LET ndim == n + CountNone(comps)
        rest == ndim - Len(comps)
    IN IF \E i \in 1..Len(comps) : comps[i].k = "ellipsis"
       THEN LET idx == FirstEllipsis(comps)
            IN SubSeq(comps, 1, idx - 1) \o Fill(rest + 1)
               \o SubSeq(comps, idx + 1, Len(comps))
       ELSE comps \o Fill(rest)

\* slice_axes, the walk over _keys: i is the key position, j the next old axis
\* (axes_iter); new is _new_axes_list, lst is list_idx.  [err, H, new, lst]
RECURSIVE WalkKeys(_, _, _, _, _, _, _)
WalkKeys(H, coords, keys, i, j, new, lst) ==
    IF i > Len(keys) THEN [err |-> "", H |-> H, new |-> new, lst |-> lst]
    ELSE LET sl == keys[i]
         IN IF sl.k = "none"
            THEN WalkKeys(H, coords, keys, i + 1, j, Append(new, NoneRef), lst)
            ELSE IF j > Len(coords)
            THEN [err |-> "StopIteration", H |-> H, new |-> new, lst |-> lst]
            ELSE LET a == coords[j]
                 IN IF sl.k \in {"slice", "array", "list"}
                    THEN LET r == Axis_slice_axis(H, a, sl)
                         IN IF r.err # ""
                            THEN [err |-> r.err, H |-> H, new |-> new, lst |-> lst]
                            ELSE WalkKeys(r.H, coords, keys, i + 1, j + 1,
                                          Append(new, r.ref),
                                          IF sl.k = "list" THEN Append(lst, a) ELSE lst)
                    ELSE WalkKeys(H, coords, keys, i + 1, j + 1, new, lst)

\* slice_axes, the collapse of two or more list-indexed axes
RECURSIVE Collapse(_, _, _, _)
Collapse(H, new, lst, added) ==
    IF new = <<>> THEN <<>>
    ELSE LET a == Head(new)
         IN IF ~PyIn(H, a, lst)
            THEN <<a>> \o Collapse(H, Tail(new), lst, added)
            ELSE IF ~added
            THEN <<NoneRef>> \o Collapse(H, Tail(new), lst, TRUE)
            ELSE Collapse(H, Tail(new), lst, added)

\* slice_axes, after the walk: the collapse when two or more axes were
\* list-indexed, then Coordinates(_new_axes_list).  H0 is the heap before the
\* call, w the walk's result.
NewCoordinates(H0, w) ==
    IF w.err # ""
    THEN [err |-> w.err, H |-> H0, list |-> <<>>, same |-> FALSE]
    ELSE LET new_axes == IF Len(w.lst) > 1
                         THEN Collapse(w.H, w.new, w.lst, FALSE)
                         ELSE w.new
             c == Coordinates_init(w.H, new_axes)
         IN [err |-> c.err, H |-> IF c.err = "" THEN w.H ELSE H0,
             list |-> c.list, same |-> FALSE]

\* slice_axes(coords, key) for the tuple / bare scalar, slice or list branches
SliceByKeys(H, coords, keys) ==
    NewCoordinates(H, WalkKeys(H, coords, keys, 1, 1, <<>>, <<>>))

\* A key: a tuple of components, or one bare component (tuple = FALSE).
Key(tuple, comps) == [tuple |-> tuple, comps |-> comps]

\* slice_axes(coords, key): [err, H, list, same]; same = the Coordinates object
\* passed in is returned itself.
slice_axes(H, coords, key) ==
    LET ndim == Len(coords)
        k0 == key.comps[1]
    IN IF key.tuple
       THEN IF IndexRaises(key.comps)
            THEN [err |-> "ValueError", H |-> H, list |-> <<>>, same |-> FALSE]
            ELSE SliceByKeys(H, coords, ExpandKey(ndim, key.comps))
       ELSE IF k0.k = "array"
       THEN IF k0.ndim = 1
            THEN [err |-> "", H |-> H, list |-> coords, same |-> TRUE]
            ELSE LET c == Coordinates_init(
                              H, <<NoneRef>> \o SubSeq(coords, k0.ndim + 1, ndim))
                 IN [err |-> c.err, H |-> H, list |-> c.list, same |-> FALSE]
       ELSE IF k0.k = "none"
       THEN LET c == Coordinates_init(H, <<NoneRef>> \o coords)
            IN [err |-> c.err, H |-> H, list |-> c.list, same |-> FALSE]
       ELSE IF k0.k = "ellipsis"
       THEN [err |-> "", H |-> H, list |-> coords, same |-> TRUE]
       ELSE SliceByKeys(H, coords, <<k0>> \o Fill(ndim - 1))

\* ------------------------------------------- the array engine's indexing
\* Dimensions of the array a component consumes in ndarray.__getitem__
Consumes(c) ==
    IF c.k \in {"none", "ellipsis"} THEN 0
    ELSE IF c.k = "array" /\ c.bool THEN c.ndim
    ELSE 1

\* Dimensions the broadcast of an advanced index contributes to the result
AdvancedNdim(c) ==
    IF c.k = "list" THEN 1
    ELSE IF c.k = "array" THEN (IF c.bool THEN 1 ELSE c.ndim)
    ELSE 0

RECURSIVE SumOver(_, _)
SumOver(comps, k) ==
    IF k = 0 THEN 0 ELSE Consumes(comps[k]) + SumOver(comps, k - 1)

RECURSIVE MaxAdvanced(_, _)
MaxAdvanced(comps, k) ==
    IF k = 0 THEN 0 ELSE Max(AdvancedNdim(comps[k]), MaxAdvanced(comps, k - 1))

\* ndarray.__getitem__ accepts the key for an n-dimensional array
EngineAccepts(n, key) ==
    /\ Cardinality({k \in 1..Len(key.comps) : key.comps[k].k = "ellipsis"}) <= 1
    /\ SumOver(key.comps, Len(key.comps)) <= n

\* ndim of the array ndarray.__getitem__ returns for the key
EngineNdim(n, key) ==
    n - SumOver(key.comps, Len(key.comps))
      + Cardinality({k \in 1..Len(key.comps) : key.comps[k].k = "slice"})
      + CountNone(key.comps)
      + MaxAdvanced(key.comps, Len(key.comps))

\* ------------------------------------------------------------------ state
VARIABLES
    heap,     \* the Axis and Index objects
    orig,     \* the axis list of the Coordinates operated on
    out,      \* the last operation: its name, arguments and result
    phase,    \* "start" | "derived" | "done"
    snap,     \* what orig's axes showed when the derived Coordinates was made
    nupd,     \* number of updates applied to the derived Coordinates
    upd       \* the last update applied to the derived Coordinates

vars == <<heap, orig, out, phase, snap, nupd, upd>>

\* Sequences of length 0..n over S
SeqsUpTo(S, n) == UNION {[1..k -> S] : k \in 0..n}

NameUnique(names) ==
    \A i, j \in 1..Len(names) :
        (i # j /\ names[i] # UNDEF_NAME) => names[i] # names[j]

\* Axis-name lists a Coordinates is built from ("#" gives an UndefAxis)
CoordsInputs == {ns \in SeqsUpTo(AxisNames \cup {UNDEF_NAME}, MaxNdim) : NameUnique(ns)}

KeyComps ==
    {CInt, CNone, CEllipsis, CList, CSlice(SliceAll),
     CSlice(Slice(TRUE, 1, TRUE, 3, 1)),
     CArray(1, TRUE), CArray(2, TRUE), CArray(2, FALSE)}

Keys ==
    {Key(TRUE, cs) : cs \in SeqsUpTo(KeyComps, MaxKeyLen)}
    \cup {Key(FALSE, <<c>>) : c \in KeyComps}

NoKey == Key(TRUE, <<>>)

\* The record of a call: key is the indexing key or NoKey, args the other
\* Coordinates passed (their axis lists)
OutOf(op, key, args, r) ==
    [op |-> op, key |-> key, args |-> args,
     err |-> r.err, list |-> r.list, same |-> r.same]

Out(op, key, r) == OutOf(op, key, <<>>, r)

NoOut == OutOf("none", NoKey, <<>>, [err |-> "", list |-> <<>>, same |-> FALSE])

NoUpd == [op |-> "none", err |-> ""]

\* An array is given coordinates: Coordinates.from_iterable(names, shape)
InitCoords(names) ==
    LET r == Coordinates_from_iterable(EmptyHeap, names)
    IN /\ heap = r.H
       /\ orig = r.list
       /\ out = NoOut
       /\ phase = "start"
       /\ snap = <<>>
       /\ nupd = 0
       /\ upd = NoUpd

Init == \E names \in CoordsInputs : InitCoords(names)

\* The call has returned or raised: r is its result
Returned(op, key, r) ==
    /\ heap' = r.H
    /\ out' = Out(op, key, r)
    /\ phase' = "done"
    /\ UNCHANGED <<orig, snap, nupd, upd>>

\* CoordsArray.__getitem__ / isel: axesop.slice_axes(self.coords, key)
SliceAxes ==
    /\ phase = "start"
    /\ \E key \in Keys : Returned("slice_axes", key, slice_axes(heap, orig, key))

Next == SliceAxes

Spec == Init /\ [][Next]_vars

\* What a Coordinates shows of its axes: names, and which are UndefAxis
View(H, list) ==
    [k \in 1..Len(list) |-> [name |-> StrOf(H, list[k]), undef |-> IsUndef(H, list[k])]]

\* ------------------------------------------------ claims on slice_axes
\* The walk the key-to-coordinates rule describes, over what the old axes
\* show: an integer drops the axis it consumes, a slice keeps it, None gives
\* an UndefAxis, a list keeps it (collapse = FALSE) or is represented by one
\* UndefAxis at the first list position (collapse = TRUE); the axes the key
\* does not address are kept.
UndefView == [name |-> UNDEF_NAME, undef |-> TRUE]

RECURSIVE Lockstep(_, _, _, _, _)
Lockstep(old, comps, j, collapse, added) ==
    IF comps = <<>> THEN SubSeq(old, j, Len(old))
    ELSE IF Head(comps).k = "none"
    THEN <<UndefView>> \o Lockstep(old, Tail(comps), j, collapse, added)
    ELSE IF Head(comps).k = "int"
    THEN Lockstep(old, Tail(comps), j + 1, collapse, added)
    ELSE IF Head(comps).k = "list" /\ collapse
    THEN (IF added THEN <<>> ELSE <<UndefView>>)
         \o Lockstep(old, Tail(comps), j + 1, collapse, TRUE)
    ELSE <<old[j]>> \o Lockstep(old, Tail(comps), j + 1, collapse, added)

CountKind(comps, kind) == Cardinality({k \in 1..Len(comps) : comps[k].k = kind})

\* The key is made of integers, slices, None and lists only and the engine
\* accepts it for the array
PlainKey(key) ==
    /\ key.comps # <<>>
    /\ \A k \in 1..Len(key.comps) : key.comps[k].k \in {"int", "slice", "none", "list"}
    /\ EngineAccepts(Len(orig), key)

\* C1: for every key the array engine accepts for an array of len(C)
\* dimensions, slice_axes returns a Coordinates whose length is the number of
\* dimensions of the array the engine returns for that key.
C1_LengthIsEngineNdim ==
    (out.op = "slice_axes" /\ EngineAccepts(Len(orig), out.key))
        => (out.err = "" /\ Len(out.list) = EngineNdim(Len(orig), out.key))

\* C2: for a key of integers, slices, None and at most one list, slice_axes
\* walks axes and key in lockstep: an integer removes its axis, a slice or
\* list keeps it under its name, None inserts one UndefAxis, trailing axes
\* are kept, all in their original order.
C2_Lockstep ==
    (out.op = "slice_axes" /\ PlainKey(out.key)
        /\ CountKind(out.key.comps, "list") <= 1)
        => (/\ out.err = ""
            /\ View(heap, out.list)
                 = Lockstep(View(heap, orig), out.key.comps, 1, FALSE, FALSE))

\* C3: for a tuple key with two or more lists, the list-indexed axes are
\* represented by exactly one UndefAxis at the position of the first of them,
\* the other list-indexed axes are removed and the rest keep names and order.
C3_ListsCollapse ==
    (out.op = "slice_axes" /\ out.key.tuple /\ PlainKey(out.key)
        /\ CountKind(out.key.comps, "list") >= 2)
        => (/\ out.err = ""
            /\ View(heap, out.list)
                 = Lockstep(View(heap, orig), out.key.comps, 1, TRUE, FALSE))

\* C4: for a bare array or mask key of rank 1 the result has the same axis
\* names in the same order; of rank N > 1 it is one UndefAxis followed by the
\* old axes from position N onward.
C4_BareArray ==
    (out.op = "slice_axes" /\ ~out.key.tuple /\ out.key.comps[1].k = "array"
        /\ EngineAccepts(Len(orig), out.key))
        => (/\ out.err = ""
            /\ View(heap, out.list)
                 = IF out.key.comps[1].ndim = 1 THEN View(heap, orig)
                   ELSE <<UndefView>>
                        \o SubSeq(View(heap, orig), out.key.comps[1].ndim + 1, Len(orig)))

\* ------------------------------------------------ Coordinates operations
\* self._axis_list.index(name) as find / Sequence.index use it: the first
\* position (1-based here) whose element equals the string, 0 when none does
IndexOf(H, list, name) ==
    IF \E k \in 1..Len(list) : list[k] # NoneRef /\ H.ax[list[k]].name = name
    THEN CHOOSE k \in 1..Len(list) :
            /\ list[k] # NoneRef /\ H.ax[list[k]].name = name
            /\ \A j \in 1..(k - 1) : ~(list[j] # NoneRef /\ H.ax[list[j]].name = name)
    ELSE 0

\* Coordinates.find(axis) without a default: [err, idx]
find(H, list, name) ==
    LET k == IndexOf(H, list, name)
    IN IF k = 0 THEN [err |-> "CoordinateError", idx |-> 0]
       ELSE [err |-> "", idx |-> k]

\* Axis.scale setter: [err, H]
Axis_set_scale(H, a, value) ==
    IF value <= 0 THEN [err |-> "ValueError", H |-> H]
    ELSE IF H.ax[a].index = NoneRef THEN [err |-> "AttributeError", H |-> H]
    ELSE LET H1 == AllocIndex(H, rescaled(H.ix[H.ax[a].index], value))
         IN [err |-> "", H |-> [H1 EXCEPT !.ax[a].index = Len(H1.ix)]]

\* Axis.unit setter: self.index.set_unit(value) changes the Index object
Axis_set_unit(H, a, value) ==
    IF a = NoneRef \/ H.ax[a].index = NoneRef
    THEN [err |-> "AttributeError", H |-> H]
    ELSE [err |-> "", H |-> [H EXCEPT !.ix[H.ax[a].index].unit = value]]

\* Coordinates.update_scales, second loop: rescale the named axes in turn
RECURSIVE ApplyScales(_, _, _)
ApplyScales(H, list, pairs) ==
    IF pairs = <<>> THEN [err |-> "", H |-> H]
    ELSE LET f == find(H, list, Head(pairs).name)
         IN IF f.err # "" THEN [err |-> f.err, H |-> H]
            ELSE LET r == Axis_set_scale(H, list[f.idx], Head(pairs).value)
                 IN IF r.err # "" THEN r
                    ELSE ApplyScales(r.H, list, Tail(pairs))

\* An update_scales that validates each value only when it assigns it
update_scales_late(H, list, pairs) == ApplyScales(H, list, pairs)

\* Coordinates.update_scales(scales): [err, H]; pairs is the mapping's items
update_scales(H, list, pairs) ==
    IF \E k \in 1..Len(pairs) : pairs[k].value <= 0
    THEN [err |-> "ValueError", H |-> H]
    ELSE ApplyScales(H, list, pairs)

\* Coordinates.update_coords(coords) for a non-empty mapping: every named axis
\* is looked up first; storing the new index calls Axis._set_metric, which
\* Axis does not define.
update_coords(H, list, names) ==
    IF \E k \in 1..Len(names) : find(H, list, names[k]).err # ""
    THEN [err |-> "CoordinateError", H |-> H]
    ELSE [err |-> "AttributeError", H |-> H]

\* The argument "new" of replace: a name, or an Axis the caller built with
\* Axis.from_size
NewArg(isStr, name) == [isStr |-> isStr, name |-> name]

\* Coordinates.replace(old, new): [err, H, list, same]
replace(H, list, old, new) ==
    LET i == IndexOf(H, list, old)
    IN IF i = 0
       THEN [err |-> "ValueError", H |-> H, list |-> <<>>, same |-> FALSE]
       ELSE IF IndexOf(H, list, new.name) # 0 /\ old # new.name
       THEN [err |-> "CoordinateError", H |-> H, list |-> <<>>, same |-> FALSE]
       ELSE IF new.isStr
       THEN [err |-> "AttributeError", H |-> H, list |-> <<>>, same |-> FALSE]
       ELSE LET H1 == Axis_from_size(H, new.name, AxisSize)
                c == Coordinates_init(H1, [list EXCEPT ![i] = Len(H1.ax)])
            IN [err |-> c.err, H |-> H1, list |-> c.list, same |-> FALSE]

\* Coordinates.drop(axes) for one name: the generator handed to
\* Coordinates.__init__ has no len()
drop(H, list, name) ==
    [err |-> "TypeError", H |-> H, list |-> <<>>, same |-> FALSE]

\* ------------------------------------- derived Coordinates and updates
\* What the axes of a Coordinates show: the Index each one is bound to
\* (its scale, unit, size, start/step or labels), None for an UndefAxis
Observe(H, list) ==
    [k \in 1..Len(list) |->
        IF list[k] = NoneRef \/ H.ax[list[k]].index = NoneRef
        THEN [bound |-> FALSE, name |-> StrOf(H, list[k]),
              index |-> ScaledIndex_arange(0)]
        ELSE [bound |-> TRUE, name |-> StrOf(H, list[k]),
              index |-> H.ix[H.ax[list[k]].index]]]

AliasInputs == {ns \in CoordsInputs : Len(ns) <= MaxAliasNdim}

AliasComps ==
    {CInt, CNone, CList, CEllipsis, CSlice(Slice(TRUE, 1, TRUE, 3, 1)), CArray(1, TRUE)}

AliasKeys ==
    {Key(TRUE, cs) : cs \in SeqsUpTo(AliasComps, 2)}
    \cup {Key(FALSE, <<c>>) : c \in AliasComps \cup {CArray(2, TRUE)}}

NewNames == {"t", "c"}
UpdNames == {"t", "z"}
ScaleValues == {0, 2}

ScalePairs ==
    {ps \in SeqsUpTo([name : UpdNames, value : ScaleValues], 2) :
        Len(ps) >= 1 /\ (Len(ps) = 2 => ps[1].name # ps[2].name)}

InitAlias == \E names \in AliasInputs : InitCoords(names)

Derived(op, key, r) ==
    /\ heap' = r.H
    /\ out' = Out(op, key, r)
    /\ phase' = IF r.err = "" THEN "derived" ELSE "failed"
    /\ snap' = Observe(r.H, orig)
    /\ UNCHANGED <<orig, nupd, upd>>

\* new = slice_axes(coords, key)
DeriveSlice ==
    /\ phase = "start"
    /\ \E key \in AliasKeys :
        Derived("slice_axes", key, slice_axes(heap, orig, key))

\* new = coords.replace(old, new)
DeriveReplace ==
    /\ phase = "start"
    /\ \E old \in AxisNames, isStr \in BOOLEAN, name \in NewNames :
        Derived("replace", NoKey, replace(heap, orig, old, NewArg(isStr, name)))

\* new = coords.drop(axis)
DeriveDrop ==
    /\ phase = "start"
    /\ \E name \in AxisNames :
        Derived("drop", NoKey, drop(heap, orig, name))

Updated(op, r) ==
    /\ heap' = r.H
    /\ upd' = [op |-> op, err |-> r.err]
    /\ nupd' = nupd + 1
    /\ UNCHANGED <<orig, out, phase, snap>>

\* new.update_scales({name: value, ...})
UpdateScales ==
    /\ phase = "derived" /\ nupd < MaxUpdates
    /\ \E pairs \in ScalePairs :
        Updated("update_scales", update_scales(heap, out.list, pairs))

\* new[k].unit = "nm"
SetUnit ==
    /\ phase = "derived" /\ nupd < MaxUpdates
    /\ \E k \in 1..Len(out.list) :
        Updated("unit", Axis_set_unit(heap, out.list[k], "nm"))

\* new.update_coords({name: ...})
UpdateCoords ==
    /\ phase = "derived" /\ nupd < MaxUpdates
    /\ \E name \in UpdNames :
        Updated("update_coords", update_coords(heap, out.list, <<name>>))

NextAlias ==
    \/ DeriveSlice
    \/ DeriveReplace
    \/ DeriveDrop
    \/ UpdateScales
    \/ SetUnit
    \/ UpdateCoords

SpecAlias == InitAlias /\ [][NextAlias]_vars

\* --------------------------------------------------------------- broadcast
\* Number of positional parameters of as_coordinates(coords, shape), none of
\* which has a default
as_coordinates_nparams == 2

\* The call as_coordinates(*args) for a Coordinates first argument: binding
\* nargs arguments to the signature, then the isinstance(coords, Coordinates)
\* branch.  [err, list]
as_coordinates(coords, nargs) ==
    IF nargs # as_coordinates_nparams THEN [err |-> "TypeError", list |-> <<>>]
    ELSE [err |-> "", list |-> coords]

\* coords0.find(a, -1): 0-based position of the first element equal to the
\* axis a, -1 when there is none
find_default(H, list, a) ==
    IF \E k \in 1..Len(list) : PyEq(H, list[k], a)
    THEN (CHOOSE k \in 1..Len(list) :
            /\ PyEq(H, list[k], a)
            /\ \A j \in 1..(k - 1) : ~PyEq(H, list[j], a)) - 1
    ELSE 0 - 1

\* list.insert(i, x) for i >= 0
ListInsert(seq, i, x) ==
    SubSeq(seq, 1, Min(i, Len(seq))) \o <<x>> \o SubSeq(seq, Min(i, Len(seq)) + 1, Len(seq))

\* _broadcast_two, the inner loop "for j in stack": [out, n_insert]
RECURSIVE InsertStack(_, _, _, _, _)
InsertStack(out_list, coords1, stack, idx, n_insert) ==
    IF stack = <<>> THEN [out |-> out_list, n_insert |-> n_insert]
    ELSE InsertStack(ListInsert(out_list, idx + n_insert, coords1[Head(stack)]),
                     coords1, Tail(stack), idx, n_insert + 1)

\* _broadcast_two, the loop over enumerate(arg_idx) and the final appends;
\* i is the 1-based position in coords1, stack holds 1-based positions
RECURSIVE InsertLoop(_, _, _, _, _, _, _)
InsertLoop(H, coords0, coords1, i, stack, n_insert, out_list) ==
    IF i > Len(coords1)
    THEN out_list \o [k \in 1..Len(stack) |-> coords1[stack[k]]]
    ELSE IF find_default(H, coords0, coords1[i]) < 0
    THEN InsertLoop(H, coords0, coords1, i + 1, Append(stack, i), n_insert, out_list)
    ELSE InsertLoop(H, coords0, coords1, i + 1, <<>>, n_insert + Len(stack),
                    InsertStack(out_list, coords1, stack,
                                find_default(H, coords0, coords1[i]), n_insert).out)

\* _broadcast_two after the two as_coordinates calls: [err, list, same]
_broadcast_two_body(H, coords0, coords1) ==
    IF \E k \in 1..Len(coords1) : IsUndef(H, coords1[k])
    THEN [err |-> "TypeError", list |-> <<>>, same |-> FALSE]
    ELSE [err |-> Coordinates_init(H, InsertLoop(H, coords0, coords1, 1, <<>>, 0, coords0)).err,
          list |-> Coordinates_init(H, InsertLoop(H, coords0, coords1, 1, <<>>, 0, coords0)).list,
          same |-> FALSE]

\* A _broadcast_two that takes its arguments as they are and reports an
\* UndefAxis in coords1 as a CoordinateError
broadcast_two_CoordinateError(H, coords0, coords1) ==
    IF \E k \in 1..Len(coords1) : IsUndef(H, coords1[k])
    THEN [err |-> "CoordinateError", list |-> <<>>, same |-> FALSE]
    ELSE _broadcast_two_body(H, coords0, coords1)

\* _broadcast_two(coords0, coords1): as_coordinates is called with one argument
_broadcast_two(H, coords0, coords1) ==
    IF as_coordinates(coords0, 1).err # ""
    THEN [err |-> as_coordinates(coords0, 1).err, list |-> <<>>, same |-> FALSE]
    ELSE IF as_coordinates(coords1, 1).err # ""
    THEN [err |-> as_coordinates(coords1, 1).err, list |-> <<>>, same |-> FALSE]
    ELSE _broadcast_two_body(H, as_coordinates(coords0, 1).list,
                            as_coordinates(coords1, 1).list)

\* broadcast(*axes_objects), the fold "for axes1 in it"
RECURSIVE broadcast_fold(_, _, _)
broadcast_fold(H, axes0, rest) ==
    IF rest = <<>> THEN [err |-> "", list |-> axes0, same |-> FALSE]
    ELSE IF _broadcast_two(H, axes0, Head(rest)).err # ""
    THEN _broadcast_two(H, axes0, Head(rest))
    ELSE broadcast_fold(H, _broadcast_two(H, axes0, Head(rest)).list, Tail(rest))

\* broadcast(*axes_objects): [err, list, same]
broadcast(H, axes_objects) ==
    IF Len(axes_objects) = 2
    THEN _broadcast_two(H, axes_objects[1], axes_objects[2])
    ELSE IF Len(axes_objects) < 2
    THEN [err |-> "TypeError", list |-> <<>>, same |-> FALSE]
    ELSE broadcast_fold(H, Head(axes_objects), Tail(axes_objects))

\* ----------------------------------------------------- broadcast, as called
BroadcastInputs == {ns \in CoordsInputs : Len(ns) <= MaxBroadcastNdim}

InitBroadcast == \E names \in BroadcastInputs : InitCoords(names)

\* The call broadcast(orig, *others) has returned or raised; b holds the heap
\* with the other Coordinates on it
BroadcastReturned(b, others) ==
    /\ heap' = b.H
    /\ out' = OutOf("broadcast", NoKey, others, broadcast(b.H, <<orig>> \o others))
    /\ phase' = "done"
    /\ UNCHANGED <<orig, snap, nupd, upd>>

\* broadcast(A, B)
Broadcast2With(b) == BroadcastReturned(b, <<b.list>>)

Broadcast2 ==
    /\ phase = "start"
    /\ \E nb \in BroadcastInputs :
        Broadcast2With(Coordinates_from_iterable(heap, nb))

\* broadcast(A, B, C)
Broadcast3With(b, c) == BroadcastReturned(c, <<b.list, c.list>>)

Broadcast3From(b, nc) == Broadcast3With(b, Coordinates_from_iterable(b.H, nc))

Broadcast3 ==
    /\ phase = "start"
    /\ \E nb, nc \in BroadcastInputs :
        Broadcast3From(Coordinates_from_iterable(heap, nb), nc)

NextBroadcast ==
    \/ Broadcast2
    \/ Broadcast3

SpecBroadcast == InitBroadcast /\ [][NextBroadcast]_vars

\* ------------------------------------------------------ claims on broadcast
HasUndef(list) == \E k \in 1..Len(list) : IsUndef(heap, list[k])

Names(list) == [k \in 1..Len(list) |-> StrOf(heap, list[k])]

\* broadcast(A, B) was called on Coordinates without UndefAxis
DefinedPair ==
    /\ out.op = "broadcast" /\ Len(out.args) = 1
    /\ ~HasUndef(orig) /\ ~HasUndef(out.args[1])

\* broadcast(A, B, C) was called on Coordinates without UndefAxis
DefinedTriple ==
    /\ out.op = "broadcast" /\ Len(out.args) = 2
    /\ ~HasUndef(orig) /\ ~HasUndef(out.args[1]) /\ ~HasUndef(out.args[2])

\* 1-based position of a name in a sequence of names, 0 when absent
PosOf(names, n) ==
    IF \E k \in 1..Len(names) : names[k] = n
    THEN CHOOSE k \in 1..Len(names) : names[k] = n
    ELSE 0

\* The names of seq that are (keep = TRUE) or are not (keep = FALSE) in S
Restrict(seq, S, keep) ==
    LET Test(x) == (x \in S) = keep IN SelectSeq(seq, Test)

\* C6: in broadcast(A, B) a run of axes of B absent from A that is followed
\* in B by an axis present in A appears contiguously, in B's order,
\* immediately before that axis; axes of B absent from A followed by no axis
\* present in A appear at the very end, in B's order.
C6_RunsBeforeAnchor ==
    DefinedPair =>
        /\ out.err = ""
        /\ \A i \in 1..Len(out.args[1]) :
            (/\ Names(out.args[1])[i] \notin Range(Names(orig))
             /\ \E j \in (i + 1)..Len(out.args[1]) :
                    Names(out.args[1])[j] \in Range(Names(orig)))
            => /\ PosOf(Names(out.list), Names(out.args[1])[i]) > 0
               /\ PosOf(Names(out.list), Names(out.args[1])[i + 1])
                    = PosOf(Names(out.list), Names(out.args[1])[i]) + 1
        /\ \A i \in 1..Len(out.args[1]) :
            (\A j \in i..Len(out.args[1]) :
                    Names(out.args[1])[j] \notin Range(Names(orig)))
            => /\ Len(out.list) >= Len(out.args[1]) - i + 1
               /\ SubSeq(Names(out.list),
                         Len(out.list) - (Len(out.args[1]) - i), Len(out.list))
                    = SubSeq(Names(out.args[1]), i, Len(out.args[1]))

\* C7: broadcast(A, B) contains every axis name of A and of B exactly once
\* and nothing else; the axes of A keep their relative order and the axes of
\* B absent from A keep their relative order from B.
C7_UnionKeepsOrders ==
    DefinedPair =>
        /\ out.err = ""
        /\ Range(Names(out.list)) = Range(Names(orig)) \cup Range(Names(out.args[1]))
        /\ Len(out.list) = Cardinality(Range(Names(out.list)))
        /\ Restrict(Names(out.list), Range(Names(orig)), TRUE) = Names(orig)
        /\ Restrict(Names(out.list), Range(Names(orig)), FALSE)
             = Restrict(Names(out.args[1]), Range(Names(orig)), FALSE)

LeftFold(A, B, C) == _broadcast_two(heap, _broadcast_two(heap, A, B).list, C)

RightNest(A, B, C) == _broadcast_two(heap, A, _broadcast_two(heap, B, C).list)

\* C9: broadcast(broadcast(A,B),C) and broadcast(A,broadcast(B,C)) contain
\* the same axis names, each exactly once, and broadcast(A,B,C) equals the
\* left-to-right fold broadcast(broadcast(A,B),C).
C9_AssociativeFold ==
    DefinedTriple =>
        /\ _broadcast_two(heap, orig, out.args[1]).err = ""
        /\ _broadcast_two(heap, out.args[1], out.args[2]).err = ""
        /\ LeftFold(orig, out.args[1], out.args[2]).err = ""
        /\ RightNest(orig, out.args[1], out.args[2]).err = ""
        /\ Range(Names(LeftFold(orig, out.args[1], out.args[2]).list))
             = Range(Names(RightNest(orig, out.args[1], out.args[2]).list))
        /\ Len(LeftFold(orig, out.args[1], out.args[2]).list)
             = Cardinality(Range(Names(LeftFold(orig, out.args[1], out.args[2]).list)))
        /\ Len(RightNest(orig, out.args[1], out.args[2]).list)
             = Cardinality(Range(Names(RightNest(orig, out.args[1], out.args[2]).list)))
        /\ out.err = ""
        /\ Names(out.list) = Names(LeftFold(orig, out.args[1], out.args[2]).list)

\* ------------------------------------------------- CoordsArray.broadcast_to
\* A "coords" argument: a Coordinates object (kind "coords", list = its axis
\* list), a list of names (kind "list") or a string of one-letter names (kind
\* "str"); names is what its elements print as
Target(kind, list, names) == [kind |-> kind, list |-> list, names |-> names]

\* CoordsArray.shape of an array whose axes all have AxisSize entries
ArrayShape(coords) == [k \in 1..Len(coords) |-> AxisSize]

\* Coordinates.has_undef
has_undef(H, list) == \E k \in 1..Len(list) : IsUndef(H, list[k])

\* Coordinates.__eq__(other): against a string the printed names, against a
\* Coordinates the axis lists, against a list the axis list and its elements
Coordinates_eq(H, list, tgt) ==
    IF tgt.kind = "coords"
    THEN /\ Len(list) = Len(tgt.list)
         /\ \A k \in 1..Len(list) : PyEq(H, list[k], tgt.list[k])
    ELSE /\ Len(list) = Len(tgt.names)
         /\ \A k \in 1..Len(list) : StrOf(H, list[k]) = tgt.names[k]

\* "a not in coords" for an axis a of the array: [err, absent]
NotInTarget(H, a, tgt) ==
    IF tgt.kind = "str" THEN [err |-> "TypeError", absent |-> FALSE]
    ELSE IF tgt.kind = "coords" THEN [err |-> "", absent |-> ~PyIn(H, a, tgt.list)]
    ELSE [err |-> "", absent |-> \A k \in 1..Len(tgt.names) : StrOf(H, a) # tgt.names[k]]

\* any(a not in coords for a in current_axes), left to right: [err, any]
RECURSIVE AnyNotIn(_, _, _, _)
AnyNotIn(H, current_axes, k, tgt) ==
    IF k > Len(current_axes) THEN [err |-> "", any |-> FALSE]
    ELSE IF NotInTarget(H, current_axes[k], tgt).err # ""
    THEN [err |-> NotInTarget(H, current_axes[k], tgt).err, any |-> FALSE]
    ELSE IF NotInTarget(H, current_axes[k], tgt).absent
    THEN [err |-> "", any |-> TRUE]
    ELSE AnyNotIn(H, current_axes, k + 1, tgt)

\* "axis not in current_axes" for an element of the target
TargetAxisAbsent(H, tgt, i, current_axes) ==
    IF tgt.kind = "coords" THEN ~PyIn(H, tgt.list[i], current_axes)
    ELSE \A k \in 1..Len(current_axes) : StrOf(H, current_axes[k]) # tgt.names[i]

\* The stacking loop: np.stack([out] * shape[i], axis=i) for every target
\* axis the array lacks; shp is out.shape.  [err, shape]
RECURSIVE StackLoop(_, _, _, _, _, _)
StackLoop(H, current_axes, tgt, shape, i, shp) ==
    IF i > Len(tgt.names) THEN [err |-> "", shape |-> shp]
    ELSE IF ~TargetAxisAbsent(H, tgt, i, current_axes)
    THEN StackLoop(H, current_axes, tgt, shape, i + 1, shp)
    ELSE IF i - 1 > Len(shp) THEN [err |-> "AxisError", shape |-> shp]
    ELSE StackLoop(H, current_axes, tgt, shape, i + 1,
                   SubSeq(shp, 1, i - 1) \o <<shape[i]>> \o SubSeq(shp, i, Len(shp)))

\* The value handed back: err, the array's shape, the coords object given to
\* _inherit_coordinates (list, names), same = the array itself is returned
Arr(err, shape, list, names, same) ==
    [err |-> err, shape |-> shape, list |-> list, names |-> names, same |-> same]

\* broadcast_to after the stacking loop: out.shape != shape, Coordinates(coords)
Stacked(H, tgt, shape, st) ==
    IF st.err # "" THEN Arr(st.err, <<>>, <<>>, <<>>, FALSE)
    ELSE IF st.shape # shape THEN Arr("ValueError", <<>>, <<>>, <<>>, FALSE)
    ELSE IF tgt.kind # "coords"
            /\ Len(tgt.names) > Cardinality(Range(tgt.names))
    THEN Arr("CoordinateError", <<>>, <<>>, <<>>, FALSE)
    ELSE Arr("", st.shape, tgt.list, tgt.names, FALSE)

\* broadcast_to, the test any(a not in coords for a in current_axes) and on
Checked(H, self_shape, current_axes, shape, tgt, an) ==
    IF an.err # "" THEN Arr(an.err, <<>>, <<>>, <<>>, FALSE)
    ELSE IF an.any
    THEN \* the message reads a.name of every element of coords
         Arr(IF tgt.kind = "coords" \/ tgt.names = <<>>
             THEN "CoordinateError" ELSE "AttributeError",
             <<>>, <<>>, <<>>, FALSE)
    ELSE Stacked(H, tgt, shape,
                 StackLoop(H, current_axes, tgt, shape, 1, self_shape))

\* np.broadcast_to(array, shape) of the array engine is possible
RECURSIVE EngineBroadcastable(_, _)
EngineBroadcastable(from, to) ==
    IF from = <<>> THEN TRUE
    ELSE IF to = <<>> THEN FALSE
    ELSE /\ from[Len(from)] \in {1, to[Len(to)]}
         /\ EngineBroadcastable(SubSeq(from, 1, Len(from) - 1),
                                SubSeq(to, 1, Len(to) - 1))

\* CoordsArray.broadcast_to(shape, coords); with coords None the engine's
\* broadcast_to answers, whose coordinates are not followed here
broadcast_to(H, self_shape, current_axes, shape, tgt) ==
    IF tgt.kind = "none"
    THEN Arr(IF EngineBroadcastable(self_shape, shape) THEN "" ELSE "ValueError",
             <<>>, <<>>, <<>>, FALSE)
    ELSE IF Len(shape) # Len(tgt.names)
    THEN Arr("ValueError", <<>>, <<>>, <<>>, FALSE)
    ELSE IF self_shape = shape /\ Coordinates_eq(H, current_axes, tgt)
    THEN Arr("", self_shape, current_axes, Names0(H, current_axes), TRUE)
    ELSE Checked(H, self_shape, current_axes, shape, tgt,
                 AnyNotIn(H, current_axes, 1, tgt))

\* CoordsArray._broadcast(value) for a CoordsArray value: self has shape
\* self_shape and coords self_coords
Array_broadcast(H, self_shape, self_coords, value_shape, value_coords) ==
    IF \/ Coordinates_eq(H, self_coords,
                         Target("coords", value_coords, Names0(H, value_coords)))
       \/ has_undef(H, self_coords)
       \/ has_undef(H, value_coords)
    THEN Arr("", value_shape, value_coords, Names0(H, value_coords), TRUE)
    ELSE broadcast_to(H, value_shape, value_coords, self_shape,
                      Target("coords", self_coords, Names0(H, self_coords)))

\* ------------------------------------------------ arrays being broadcast
ArrayInputs == {ns \in CoordsInputs : Len(ns) <= MaxArrayNdim}

\* Strings and lists of names given as "coords"
NameSeqs == SeqsUpTo(AxisNames \cup {UNDEF_NAME}, MaxArrayNdim)

Shapes == SeqsUpTo({SmallSize, AxisSize}, MaxArrayNdim)

\* The array operated on has coordinates orig and shape ArrayShape(orig)
InitArray == \E names \in ArrayInputs : InitCoords(names)

\* The record of an array call: target is the coords argument, shape the
\* shape argument
OutArr(op, tgt, shape, r) ==
    [op |-> op, key |-> NoKey, args |-> <<tgt.list>>, err |-> r.err,
     list |-> r.list, same |-> r.same,
     target |-> tgt, shape |-> shape, rshape |-> r.shape, rnames |-> r.names]

ArrayReturned(op, H, tgt, shape, r) ==
    /\ heap' = H
    /\ out' = OutArr(op, tgt, shape, r)
    /\ phase' = "done"
    /\ UNCHANGED <<orig, snap, nupd, upd>>

\* arr.broadcast_to(shape, coords) with a Coordinates object as coords
BroadcastToCoordsWith(t, names, shape) ==
    ArrayReturned("broadcast_to", t.H, Target("coords", t.list, names), shape,
                  broadcast_to(t.H, ArrayShape(orig), orig, shape,
                               Target("coords", t.list, names)))

BroadcastToCoords ==
    /\ phase = "start"
    /\ \E names \in ArrayInputs, shape \in Shapes :
        BroadcastToCoordsWith(Coordinates_from_iterable(heap, names), names, shape)

\* arr.broadcast_to(shape, coords) with None, a list of names or a string
BroadcastToNames ==
    /\ phase = "start"
    /\ \E kind \in {"none", "list", "str"}, names \in NameSeqs, shape \in Shapes :
        /\ kind = "none" => names = <<>>
        /\ ArrayReturned("broadcast_to", heap, Target(kind, <<>>, names), shape,
                         broadcast_to(heap, ArrayShape(orig), orig, shape,
                                      Target(kind, <<>>, names)))

\* self <op> arr, for every operator that starts with self._broadcast(value):
\* self has coordinates t.list
BinaryOpWith(t, names) ==
    ArrayReturned("binary_op", t.H, Target("coords", t.list, names),
                  ArrayShape(t.list),
                  Array_broadcast(t.H, ArrayShape(t.list), t.list,
                                  ArrayShape(orig), orig))

BinaryOp ==
    /\ phase = "start"
    /\ \E names \in ArrayInputs :
        BinaryOpWith(Coordinates_from_iterable(heap, names), names)

NextArray ==
    \/ BroadcastToCoords
    \/ BroadcastToNames
    \/ BinaryOp

SpecArray == InitArray /\ [][NextArray]_vars

\* ---------------------------------------------------- claims on arrays
\* The operand has an axis whose name is absent from the target coordinates
OperandAxisAbsent ==
    \E k \in 1..Len(orig) : StrOf(heap, orig[k]) \notin Range(out.target.names)

\* C10: broadcasting an array to a target coordinate set (broadcast_to, and a
\* binary operator through _broadcast when both operands have fully defined,
\* unequal coordinates) fails with CoordinateError whenever the operand has
\* an axis that is absent from the target coordinate set.
C10_AbsentAxisCoordinateError ==
    /\ (out.op = "broadcast_to" /\ out.target.kind # "none"
            /\ ~HasUndef(orig) /\ OperandAxisAbsent)
        => out.err = "CoordinateError"
    /\ (out.op = "binary_op" /\ ~HasUndef(orig) /\ ~HasUndef(out.target.list)
            /\ Names(orig) # out.target.names /\ OperandAxisAbsent)
        => out.err = "CoordinateError"

\* C5: a Coordinates returned by slice_axes, drop or replace is an independent
\* snapshot: after any later update_scales, update_coords or unit assignment
\* on the derived Coordinates, the scale, unit and index of every axis of the
\* original are what they were when it was derived.
C5_IndependentSnapshot ==
    phase = "derived" => Observe(heap, orig) = snap

\* ------------------------------- Coordinates: construction and its methods
MaxOpsNdim == 3

\* Axis-name lists handed to a constructor: the same name may occur twice
AnyNames == SeqsUpTo(AxisNames \cup {UNDEF_NAME}, MaxOpsNdim)

\* The last step of Coordinates.from_iterable: cls([as_axis(a, size) ...]);
\* r holds the axes as_axis made.  [err, H, list, same]
from_iterable_init(r) ==
    [err |-> Coordinates_init(r.H, r.list).err, H |-> r.H,
     list |-> Coordinates_init(r.H, r.list).list, same |-> FALSE]

\* The names of the defined axes of a list are pairwise distinct
DistinctDefined(H, list) ==
    \A i, j \in 1..Len(list) :
        (i # j /\ list[i] # NoneRef /\ list[j] # NoneRef
               /\ ~IsUndef(H, list[i]) /\ ~IsUndef(H, list[j]))
            => StrOf(H, list[i]) # StrOf(H, list[j])

\* The record of a method call: args are its arguments, val what it returned
\* when that is not a Coordinates
OpOut(op, key, args, r, val) ==
    [op |-> op, key |-> key, args |-> args,
     err |-> r.err, list |-> r.list, same |-> r.same, val |-> val]

InitOps ==
    /\ heap = EmptyHeap
    /\ orig = <<>>
    /\ out = NoOut
    /\ phase = "new"
    /\ snap = <<>>
    /\ nupd = 0
    /\ upd = NoUpd

Constructed(names, r) ==
    /\ heap' = r.H
    /\ orig' = r.list
    /\ out' = OpOut("construct", NoKey, names, r, 0)
    /\ phase' = IF r.err = "" THEN "start" ELSE "failed"
    /\ snap' = Observe(r.H, r.list)
    /\ UNCHANGED <<nupd, upd>>

\* C = Coordinates.from_iterable(names, shape)
Construct ==
    /\ phase = "new"
    /\ \E names \in AnyNames :
        Constructed(names, from_iterable_init(Coordinates_from_iterable(heap, names)))

\* The argument "axis" of find: a string, or the Axis object at a position of
\* some Coordinates (ref)
AxisArg(isStr, name, ref) == [isStr |-> isStr, name |-> name, ref |-> ref]

\* self._axis_list.index(axis): 0-based, -1 standing for ValueError
ListIndex(H, list, axis) ==
    IF axis.isStr THEN IndexOf(H, list, axis.name) - 1
    ELSE find_default(H, list, axis.ref)

\* A find that lets the list's own ValueError through
find_ValueError(H, list, axis, args) ==
    IF Len(args) > 1 THEN [err |-> "TypeError", val |-> 0]
    ELSE IF ListIndex(H, list, axis) >= 0
    THEN [err |-> "", val |-> ListIndex(H, list, axis)]
    ELSE [err |-> "ValueError", val |-> 0]

\* Coordinates.find(axis, *args): [err, val]
Coordinates_find(H, list, axis, args) ==
    IF Len(args) > 1 THEN [err |-> "TypeError", val |-> 0]
    ELSE IF ListIndex(H, list, axis) >= 0
    THEN [err |-> "", val |-> ListIndex(H, list, axis)]
    ELSE IF args # <<>> THEN [err |-> "", val |-> args[1]]
    ELSE [err |-> "CoordinateError", val |-> 0]

\* The names looked up: those an axis may have, and one no axis has
LookupNames == AxisNames \cup {UNDEF_NAME, "q"}

Defaults == {<<>>, <<0 - 1>>, <<0 - 1, 0>>}

NoList == [err |-> "", list |-> <<>>, same |-> FALSE]

Found(axis, args, r) ==
    /\ out' = OpOut("find", NoKey, <<axis, args>>,
                    [NoList EXCEPT !.err = r.err], r.val)
    /\ phase' = "done"
    /\ UNCHANGED <<heap, orig, snap, nupd, upd>>

\* C.find(name, *args) and C.find(C[k], *args)
Find ==
    /\ phase = "start"
    /\ \E args \in Defaults :
        \/ \E name \in LookupNames :
              Found(AxisArg(TRUE, name, NoneRef), args,
                    Coordinates_find(heap, orig, AxisArg(TRUE, name, NoneRef), args))
        \/ \E k \in 1..Len(orig) :
              Found(AxisArg(FALSE, StrOf(heap, orig[k]), orig[k]), args,
                    Coordinates_find(heap, orig,
                                     AxisArg(FALSE, StrOf(heap, orig[k]), orig[k]), args))

MethodReturned(op, key, args, r) ==
    /\ heap' = r.H
    /\ out' = OpOut(op, key, args, r, 0)
    /\ phase' = "done"
    /\ UNCHANGED <<orig, snap, nupd, upd>>

\* C.drop(name)
Drop ==
    /\ phase = "start"
    /\ \E name \in LookupNames :
        MethodReturned("drop", NoKey, <<name>>, drop(heap, orig, name))

\* C.replace(old, new), new a name or an Axis
Replace ==
    /\ phase = "start"
    /\ \E old \in LookupNames, isStr \in BOOLEAN, name \in AxisNames \cup {"c"} :
        MethodReturned("replace", NoKey, <<old, NewArg(isStr, name)>>,
                       replace(heap, orig, old, NewArg(isStr, name)))

\* C[key]: slice_axes(C, key)
Sliced ==
    /\ phase = "start"
    /\ \E key \in AliasKeys :
        MethodReturned("slice_axes", key, <<>>, slice_axes(heap, orig, key))

BroadcastWith(b) ==
    /\ heap' = b.H
    /\ out' = OpOut("broadcast", NoKey, <<b.list>>,
                    broadcast(b.H, <<orig, b.list>>), 0)
    /\ phase' = "done"
    /\ UNCHANGED <<orig, snap, nupd, upd>>

\* broadcast(C, B)
Broadcasted ==
    /\ phase = "start"
    /\ \E nb \in BroadcastInputs :
        BroadcastWith(Coordinates_from_iterable(heap, nb))

\* create_slice, the loop "for k, v in sl.items()": idx = self.index(k), which
\* raises ValueError for a name no axis has; sl_list[idx] = v.  [err, val]
RECURSIVE create_slice_loop(_, _, _, _)
create_slice_loop(H, list, items, sl_list) ==
    IF items = <<>> THEN [err |-> "", val |-> sl_list]
    ELSE IF IndexOf(H, list, Head(items).name) = 0
    THEN [err |-> "ValueError", val |-> <<>>]
    ELSE create_slice_loop(H, list, Tail(items),
            [sl_list EXCEPT ![IndexOf(H, list, Head(items).name)] = Head(items).key])

\* A create_slice that accepts an empty mapping
create_slice_unguarded(H, list, sl) ==
    create_slice_loop(H, list, sl, [k \in 1..Len(list) |-> CSlice(SliceAll)])

\* Coordinates.create_slice(sl) for a mapping sl, given as its items: [err, val]
create_slice(H, list, sl) ==
    IF sl = <<>> THEN [err |-> "TypeError", val |-> <<>>]
    ELSE create_slice_loop(H, list, sl, [k \in 1..Len(list) |-> CSlice(SliceAll)])

\* The keys a mapping gives: an integer, a slice
MappedKeys == {CInt, CSlice(Slice(TRUE, 1, TRUE, 3, 1))}

\* Mappings {name: key} of up to two names
Mappings ==
    {m \in SeqsUpTo([name : LookupNames, key : MappedKeys], 2) :
        Len(m) = 2 => m[1].name # m[2].name}

SliceCreated(sl, r) ==
    /\ out' = OpOut("create_slice", NoKey, sl, [NoList EXCEPT !.err = r.err], r.val)
    /\ phase' = "done"
    /\ UNCHANGED <<heap, orig, snap, nupd, upd>>

\* C.create_slice(sl)
CreateSlice ==
    /\ phase = "start"
    /\ \E sl \in Mappings : SliceCreated(sl, create_slice(heap, orig, sl))

NextOps ==
    \/ Construct
    \/ Find
    \/ Drop
    \/ Replace
    \/ Sliced
    \/ Broadcasted
    \/ CreateSlice

SpecOps == InitOps /\ [][NextOps]_vars

\* ------------------------------------- claims on Coordinates and its methods
\* C11: constructing a Coordinates from a sequence in which two defined axes
\* have the same name fails with CoordinateError, and in every Coordinates that
\* construction, drop, replace, slice_axes or broadcast returned the names of
\* the axes that are not UndefAxis are pairwise distinct.
C11_NameUnique ==
    /\ (out.op = "construct" /\ ~NameUnique(out.args))
            => out.err = "CoordinateError"
    /\ (out.op \in {"construct", "drop", "replace", "slice_axes", "broadcast"}
            /\ out.err = "")
            => DistinctDefined(heap, out.list)

\* A construction from <<t, #, t>> was refused
C11_Witness ==
    /\ out.op = "construct" /\ out.args = <<"t", UNDEF_NAME, "t">>
    /\ out.err = "CoordinateError" /\ phase = "failed"

\* The looked-up axis is a defined axis of C / no axis of C has its name
NamesDefinedAxis(axis) ==
    /\ axis.name # UNDEF_NAME
    /\ \E k \in 1..Len(orig) : orig[k] # NoneRef /\ StrOf(heap, orig[k]) = axis.name

NamesNoAxis(axis) ==
    \A k \in 1..Len(orig) : StrOf(heap, orig[k]) # axis.name

\* C12: for every defined axis a of C, C.find(a) returns a position idx with
\* C[idx].name == str(a); for a name not in C, find raises CoordinateError
\* when no default is given and returns the default when one is given; C is
\* left as it was.
C12_FindRoundTrip ==
    (out.op = "find" /\ Len(out.args[2]) <= 1) =>
        /\ NamesDefinedAxis(out.args[1]) =>
              /\ out.err = ""
              /\ out.val \in 0..(Len(orig) - 1)
              /\ StrOf(heap, orig[out.val + 1]) = out.args[1].name
        /\ (NamesNoAxis(out.args[1]) /\ out.args[2] = <<>>) =>
              out.err = "CoordinateError"
        /\ (NamesNoAxis(out.args[1]) /\ out.args[2] # <<>>) =>
              (out.err = "" /\ out.val = out.args[2][1])
        /\ Observe(heap, orig) = snap

\* find was given the Axis z of <<t, #, z>> and returned its position
C12_Witness ==
    /\ out.op = "find" /\ ~out.args[1].isStr /\ out.args[1].name = "z"
    /\ Names0(heap, orig) = <<"t", UNDEF_NAME, "z">>
    /\ out.err = "" /\ out.val = 2

\* The names of seq other than name, in their order
NamesWithout(seq, name) ==
    LET Other(x) == x # name IN SelectSeq(seq, Other)

\* C13: C.drop(a) returns a Coordinates holding exactly the axes of C other
\* than the named one, in their original relative order; dropping a name C
\* does not have returns coordinates equal to C.
C13_DropKeepsOthers ==
    out.op = "drop" =>
        /\ out.err = ""
        /\ Names0(heap, out.list) = NamesWithout(Names0(heap, orig), out.args[1])

\* C14: C.replace(old, new) returns a Coordinates of the same length whose
\* axis at the position of old is named new and whose other axes are unchanged
\* in name and order; it fails with CoordinateError when new already names
\* another axis of C and differs from old; in both outcomes C still has its
\* original axes.
C14_ReplaceRenames ==
    (out.op = "replace" /\ IndexOf(heap, orig, out.args[1]) # 0) =>
        /\ Observe(heap, orig) = snap
        /\ IF IndexOf(heap, orig, out.args[2].name) # 0
                /\ out.args[2].name # out.args[1]
           THEN out.err = "CoordinateError"
           ELSE /\ out.err = ""
                /\ Names0(heap, out.list) =
                      [Names0(heap, orig)
                          EXCEPT ![IndexOf(heap, orig, out.args[1])] = out.args[2].name]

\* Every name the mapping mentions is the name of an axis of C
MentionsAxesOf(sl) ==
    \A k \in 1..Len(sl) : IndexOf(heap, orig, sl[k].name) # 0

\* C15: for a non-empty mapping m from axis names of C to keys,
\* C.create_slice(m) returns a tuple of exactly len(C) entries whose entry at
\* C.find(name) is m[name] for each mentioned name and slice(None) for every
\* other position; an empty mapping makes create_slice fail.
C15_CreateSlice ==
    (out.op = "create_slice" /\ MentionsAxesOf(out.args)) =>
        IF out.args = <<>> THEN out.err # ""
        ELSE /\ out.err = ""
             /\ Len(out.val) = Len(orig)
             /\ \A k \in 1..Len(out.args) :
                   out.val[Coordinates_find(heap, orig,
                               AxisArg(TRUE, out.args[k].name, NoneRef), <<>>).val + 1]
                       = out.args[k].key
             /\ \A i \in 1..Len(orig) :
                   (\A k \in 1..Len(out.args) :
                        IndexOf(heap, orig, out.args[k].name) # i)
                       => out.val[i] = CSlice(SliceAll)

\* create_slice({z: 1, t: 1:3}) on <<t, z, y>> returned (1:3, 1, :)
C15_Witness ==
    /\ out.op = "create_slice"
    /\ Names0(heap, orig) = <<"t", "z", "y">>
    /\ out.args = <<[name |-> "z", key |-> CInt],
                    [name |-> "t", key |-> CSlice(Slice(TRUE, 1, TRUE, 3, 1))]>>
    /\ out.val = <<CSlice(Slice(TRUE, 1, TRUE, 3, 1)), CInt, CSlice(SliceAll)>>

\* ------------------------------------------------------- assigning scales
\* Coordinates.update_scales(scales), with what it returns: self
\* [err, H, list, same]
Coordinates_update_scales(H, list, pairs) ==
    [err |-> update_scales(H, list, pairs).err,
     H |-> update_scales(H, list, pairs).H,
     list |-> IF update_scales(H, list, pairs).err = "" THEN list ELSE <<>>,
     same |-> update_scales(H, list, pairs).err = ""]


\* The scales assigned: negative, zero, positive
Scales == {0 - 1, 0, 2, 3}

\* Mappings {name: scale} of one or two names
ScaleMappings ==
    {ps \in SeqsUpTo([name : AxisNames, value : Scales], 2) :
        Len(ps) >= 1 /\ (Len(ps) = 2 => ps[1].name # ps[2].name)}

InitScale == \E names \in AliasInputs : InitCoords(names)

FirstSliced(r) ==
    /\ r.err = ""
    /\ heap' = r.H
    /\ orig' = r.list
    /\ out' = Out("slice_axes", Key(FALSE, <<CList>>), r)
    /\ phase' = "sliced"
    /\ UNCHANGED <<snap, nupd, upd>>

\* C = arr[[1, 3]].coords: the first axis now has a CategoricalIndex
SliceFirst ==
    /\ phase = "start" /\ Len(orig) >= 1
    /\ FirstSliced(slice_axes(heap, orig, Key(FALSE, <<CList>>)))

Rescaled(op, pairs, r) ==
    /\ heap' = r.H
    /\ upd' = [op |-> op, err |-> r.err, pairs |-> pairs, same |-> r.same]
    /\ snap' = Observe(heap, orig)
    /\ phase' = "done"
    /\ nupd' = nupd + 1
    /\ UNCHANGED <<orig, out>>

\* C.update_scales({name: value, ...})
UpdateScalesOf ==
    /\ phase \in {"start", "sliced"}
    /\ \E pairs \in ScaleMappings :
        Rescaled("update_scales", pairs, Coordinates_update_scales(heap, orig, pairs))

AxisRescaled(k, value, r) ==
    Rescaled("scale", <<[name |-> StrOf(heap, orig[k]), value |-> value]>>,
             [err |-> r.err, H |-> r.H, same |-> FALSE])

\* C[k].scale = value
SetScale ==
    /\ phase \in {"start", "sliced"}
    /\ \E k \in 1..Len(orig), value \in Scales :
        AxisRescaled(k, value, Axis_set_scale(heap, orig[k], value))

NextScale ==
    \/ SliceFirst
    \/ UpdateScalesOf
    \/ SetScale

SpecScale == InitScale /\ [][NextScale]_vars

\* The scale the mapping gives the axis called name, 0 when it names it not
ScaleGiven(pairs, name) ==
    IF \E k \in 1..Len(pairs) : pairs[k].name = name
    THEN (CHOOSE p \in Range(pairs) : p.name = name).value
    ELSE 0

\* C16: assigning a scale that is zero or negative (through Axis.scale or
\* Coordinates.update_scales) fails with ValueError and leaves every axis of
\* the Coordinates as it was, also the axes the same call named earlier with
\* valid values; assigning positive scales to defined axes of C changes only
\* the named axes, and update_scales returns the Coordinates it was called on.
C16_ScaleAssignment ==
    upd.op \in {"update_scales", "scale"} =>
        /\ (\E k \in 1..Len(upd.pairs) : upd.pairs[k].value <= 0) =>
              (upd.err = "ValueError" /\ Observe(heap, orig) = snap)
        /\ (\A k \in 1..Len(upd.pairs) :
                /\ upd.pairs[k].value > 0
                /\ upd.pairs[k].name # UNDEF_NAME
                /\ IndexOf(heap, orig, upd.pairs[k].name) # 0) =>
              /\ upd.err = ""
              /\ upd.op = "update_scales" => upd.same
              /\ \A i \in 1..Len(orig) :
                    IF ScaleGiven(upd.pairs, StrOf(heap, orig[i])) > 0
                    THEN Observe(heap, orig)[i] =
                            [snap[i] EXCEPT !.index =
                                rescaled(@, ScaleGiven(upd.pairs, StrOf(heap, orig[i])))]
                    ELSE Observe(heap, orig)[i] = snap[i]

\* update_scales({t: 2, z: 0}) on <<t, z>> raised and t still has scale 1
C16_Witness ==
    /\ upd.op = "update_scales"
    /\ upd.pairs = <<[name |-> "t", value |-> 2], [name |-> "z", value |-> 0]>>
    /\ Names0(heap, orig) = <<"t", "z">>
    /\ upd.err = "ValueError"
    /\ Axis_scale(heap, orig[1]) = 1

\* ------------------------------------------------------ Coordinates.copy
\* Axis.__copy__: self.__class__(self._name, index=self.index), a new Axis
\* bound to the same Index object; UndefAxis.__init__ drops its arguments
Axis_copy(H, a) ==
    AllocAxis(H, H.ax[a].name, H.ax[a].undef,
              IF H.ax[a].undef THEN NoneRef ELSE H.ax[a].index)

\* Coordinates.__init__(value) for a Coordinates value:
\* [a.__copy__() for a in value._axis_list].  [err, H, list, same]
RECURSIVE Coordinates_copy(_, _)
Coordinates_copy(H, list) ==
    IF list = <<>> THEN [err |-> "", H |-> H, list |-> <<>>, same |-> FALSE]
    ELSE IF Coordinates_copy(H, SubSeq(list, 1, Len(list) - 1)).err # ""
              \/ list[Len(list)] = NoneRef
    THEN [err |-> "AttributeError", H |-> H, list |-> <<>>, same |-> FALSE]
    ELSE [err |-> "",
          H |-> Axis_copy(Coordinates_copy(H, SubSeq(list, 1, Len(list) - 1)).H,
                          list[Len(list)]),
          list |-> Append(Coordinates_copy(H, SubSeq(list, 1, Len(list) - 1)).list,
                          Len(Coordinates_copy(H, SubSeq(list, 1, Len(list) - 1)).H.ax) + 1),
          same |-> FALSE]

InitCopy == \E names \in AliasInputs : InitCoords(names)

Copied(r) ==
    /\ heap' = r.H
    /\ out' = Out("copy", NoKey, r)
    /\ phase' = "copied"
    /\ snap' = <<Observe(r.H, orig), Observe(r.H, r.list)>>
    /\ upd' = [op |-> "copy", err |-> r.err, touched |-> {}]
    /\ UNCHANGED <<orig, nupd>>

\* C2 = C.copy()
Copy ==
    /\ phase = "start"
    /\ Copied(Coordinates_copy(heap, orig))

Assigned(op, side, r) ==
    /\ heap' = r.H
    /\ upd' = [op |-> op, err |-> r.err, touched |-> upd.touched \cup {side}]
    /\ nupd' = nupd + 1
    /\ UNCHANGED <<orig, out, phase, snap>>

\* C2[k].scale = 2
ScaleOfCopy ==
    /\ phase = "copied" /\ nupd < MaxUpdates
    /\ \E k \in 1..Len(out.list) :
        Assigned("scale", "copy", Axis_set_scale(heap, out.list[k], 2))

\* C2[k].unit = "nm"
UnitOfCopy ==
    /\ phase = "copied" /\ nupd < MaxUpdates
    /\ \E k \in 1..Len(out.list) :
        Assigned("unit", "copy", Axis_set_unit(heap, out.list[k], "nm"))

\* C[k].scale = 2
ScaleOfOriginal ==
    /\ phase = "copied" /\ nupd < MaxUpdates
    /\ \E k \in 1..Len(orig) :
        Assigned("scale", "orig", Axis_set_scale(heap, orig[k], 2))

\* C[k].unit = "nm"
UnitOfOriginal ==
    /\ phase = "copied" /\ nupd < MaxUpdates
    /\ \E k \in 1..Len(orig) :
        Assigned("unit", "orig", Axis_set_unit(heap, orig[k], "nm"))

NextCopy ==
    \/ Copy
    \/ ScaleOfCopy
    \/ UnitOfCopy
    \/ ScaleOfOriginal
    \/ UnitOfOriginal

SpecCopy == InitCopy /\ [][NextCopy]_vars

\* C17: after C2 = C.copy(), assigning a scale or a unit to any axis of C2
\* leaves the scale and the unit of every axis of C unchanged, and assigning
\* them on C leaves C2 unchanged.
C17_CopyIsIndependent ==
    phase = "copied" =>
        /\ "orig" \notin upd.touched => Observe(heap, orig) = snap[1]
        /\ "copy" \notin upd.touched => Observe(heap, out.list) = snap[2]

\* --------------------------------------- deriving Coordinates, repeatedly
MaxFrameOps == 2

FrameKeys ==
    {Key(FALSE, <<CNone>>), Key(FALSE, <<CList>>), Key(FALSE, <<CEllipsis>>),
     Key(FALSE, <<CArray(1, TRUE)>>), Key(FALSE, <<CArray(2, TRUE)>>),
     Key(TRUE, <<CInt>>), Key(TRUE, <<CSlice(Slice(TRUE, 1, TRUE, 3, 1))>>),
     Key(TRUE, <<CList, CList>>)}

FrameOthers == {<<"t">>, <<"y", "z">>, <<UNDEF_NAME>>}

InitFrameWith(r) ==
    /\ heap = r.H
    /\ orig = r.list
    /\ out = NoOut
    /\ phase = "start"
    /\ snap = <<Observe(r.H, r.list), Observe(r.H, r.list), <<>>>>
    /\ nupd = 0
    /\ upd = [op |-> "none", err |-> "", input |-> r.list, other |-> <<>>]

InitFrame ==
    \E names \in AliasInputs : InitFrameWith(Coordinates_from_iterable(EmptyHeap, names))

\* The Coordinates at hand: the first one and the one the last call returned
AtHand ==
    {orig} \cup (IF out.op # "none" /\ out.err = "" THEN {out.list} ELSE {})

\* A call on input (and other) has returned or raised; H0 is the heap it
\* started from, r its result
Framed(op, key, input, other, H0, r) ==
    /\ heap' = r.H
    /\ out' = OutOf(op, key, <<other>>, r)
    /\ upd' = [op |-> op, err |-> r.err, input |-> input, other |-> other]
    /\ snap' = <<snap[1], Observe(H0, input), Observe(H0, other)>>
    /\ nupd' = nupd + 1
    /\ UNCHANGED <<orig, phase>>

\* slice_axes(input, key)
FrameSlice ==
    /\ nupd < MaxFrameOps
    /\ \E input \in AtHand, key \in FrameKeys :
        Framed("slice_axes", key, input, <<>>, heap, slice_axes(heap, input, key))

\* input.replace(old, new)
FrameReplace ==
    /\ nupd < MaxFrameOps
    /\ \E input \in AtHand, old \in {"t", "z"}, isStr \in BOOLEAN :
        Framed("replace", NoKey, input, <<>>, heap,
               replace(heap, input, old, NewArg(isStr, "c")))

\* input.drop(name)
FrameDrop ==
    /\ nupd < MaxFrameOps
    /\ \E input \in AtHand :
        Framed("drop", NoKey, input, <<>>, heap, drop(heap, input, "t"))

FrameBroadcastWith(input, b) ==
    Framed("broadcast", NoKey, input, b.list, b.H,
           [err |-> broadcast(b.H, <<input, b.list>>).err, H |-> b.H,
            list |-> broadcast(b.H, <<input, b.list>>).list, same |-> FALSE])

\* broadcast(input, B)
FrameBroadcast ==
    /\ nupd < MaxFrameOps
    /\ \E input \in AtHand, nb \in FrameOthers :
        FrameBroadcastWith(input, Coordinates_from_iterable(heap, nb))

NextFrame ==
    \/ FrameSlice
    \/ FrameReplace
    \/ FrameDrop
    \/ FrameBroadcast

SpecFrame == InitFrame /\ [][NextFrame]_vars

\* C18: slice_axes, drop, replace and broadcast never modify their input
\* Coordinates: after any sequence of these calls each input still has the
\* same axis sequence, and each of its axes the same name, index size,
\* start/step or labels, scale and unit as before the calls.
C18_InputsUnchanged ==
    /\ Observe(heap, orig) = snap[1]
    /\ Observe(heap, upd.input) = snap[2]
    /\ Observe(heap, upd.other) = snap[3]

\* A slice of <<t, z>> by a list returned a Coordinates whose t has labels,
\* and a second call was made on the result
C18_Witness ==
    /\ nupd = 2
    /\ upd.input # orig
    /\ Names0(heap, upd.input) = <<"t", "z">>
    /\ heap.ix[heap.ax[upd.input[1]].index].kind = "categorical"
    /\ out.op = "slice_axes" /\ out.err = ""

\* ------------------------------------------- Coordinates.__eq__ / __hash__
\* Coordinates.__hash__: hash(tuple(map(str, self._axis_list))), shown as
\* the tuple that is hashed
Coordinates_hash(H, list) == Names0(H, list)

InitEq == \E names \in AliasInputs : InitCoords(names)

\* C == other was evaluated, and the two hashes; H holds both Coordinates
Compared(how, H, other) ==
    /\ heap' = H
    /\ out' = OpOut("eq", NoKey, <<how>>,
                    [err |-> "", list |-> other, same |-> other = orig],
                    [eq |-> Coordinates_eq(H, orig, Target("coords", other, Names0(H, other))),
                     hash |-> Coordinates_hash(H, orig),
                     other_hash |-> Coordinates_hash(H, other)])
    /\ phase' = "done"
    /\ UNCHANGED <<orig, snap, nupd, upd>>

\* C == C
CompareSelf ==
    /\ phase = "start"
    /\ Compared("self", heap, orig)

ComparedWith(how, r) == Compared(how, r.H, r.list)

\* C == C.copy()
CompareCopy ==
    /\ phase = "start"
    /\ ComparedWith("copy", Coordinates_copy(heap, orig))

\* C == Coordinates.from_iterable(names, shape)
CompareOther ==
    /\ phase = "start"
    /\ \E names \in AliasInputs :
        ComparedWith("other", Coordinates_from_iterable(heap, names))

NextEq ==
    \/ CompareSelf
    \/ CompareCopy
    \/ CompareOther

SpecEq == InitEq /\ [][NextEq]_vars

\* C19: two Coordinates compare equal if and only if their ordered tuples of
\* axis names are equal (also when some axes are UndefAxis named '#', as for
\* a Coordinates and its copy), and any two equal Coordinates have equal
\* hashes.
C19_EqualIffSameNames ==
    out.op = "eq" =>
        /\ out.val.eq <=> (Names0(heap, orig) = Names0(heap, out.list))
        /\ out.val.eq => (out.val.hash = out.val.other_hash)

\* ------------------------------------------- CoordinatesMixin.coords setter
\* CoordinatesMixin._get_shape: raise NotImplementedError().  CoordsArray does
\* not override it.  [err, shape]
_get_shape(shape) == [err |-> "NotImplementedError", shape |-> <<>>]

\* Coordinates.undef(ndim) called with the shape tuple: range(ndim) of a tuple
\* raises TypeError.  [err, H, list, same]
Coordinates_undef_of_shape(H, shape) ==
    [err |-> "TypeError", H |-> H, list |-> <<>>, same |-> FALSE]

\* build_coords(value, shape) for a sequence of axis names: the length of the
\* sequence must equal len(shape), then the axes are made as from_iterable
\* makes them.  [err, H, list, same]
build_coords(H, value, shape) ==
    IF Len(value) # Len(shape)
    THEN [err |-> "CoordinateError", H |-> H, list |-> <<>>, same |-> FALSE]
    ELSE from_iterable_init(Coordinates_from_iterable(H, value))

\* The value assigned: None, or a sequence of axis names
Assignable(isNone, names) == [isNone |-> isNone, names |-> names]

\* coords.setter(value) on an array of the given shape: the arguments of
\* Coordinates.undef / build_coords are evaluated first.  [err, H, list, same]
coords_setter(H, shape, value) ==
    IF _get_shape(shape).err # ""
    THEN [err |-> _get_shape(shape).err, H |-> H, list |-> <<>>, same |-> FALSE]
    ELSE IF value.isNone
    THEN Coordinates_undef_of_shape(H, _get_shape(shape).shape)
    ELSE build_coords(H, value.names, _get_shape(shape).shape)

AttachNames == SeqsUpTo(AxisNames \cup {UNDEF_NAME}, MaxArrayNdim)

\* An array viewed from data of some shape: it has no _coords yet
InitAttach ==
    /\ heap = EmptyHeap
    /\ orig = <<>>
    /\ out = NoOut
    /\ phase = "unset"
    /\ snap \in Shapes
    /\ nupd = 0
    /\ upd = NoUpd

\* self._coords is bound only when the right-hand side was evaluated
AttachedWith(value, r) ==
    /\ heap' = r.H
    /\ orig' = IF r.err = "" THEN r.list ELSE orig
    /\ phase' = IF r.err = "" THEN "set" ELSE phase
    /\ upd' = [op |-> "assign", err |-> r.err, value |-> value,
               before |-> orig, was |-> phase]
    /\ nupd' = nupd + 1
    /\ UNCHANGED <<out, snap>>

\* arr.coords = None
AttachNone ==
    /\ nupd < MaxUpdates
    /\ AttachedWith(Assignable(TRUE, <<>>),
                    coords_setter(heap, snap, Assignable(TRUE, <<>>)))

\* arr.coords = names
AttachNames1 ==
    /\ nupd < MaxUpdates
    /\ \E names \in AttachNames :
        AttachedWith(Assignable(FALSE, names),
                     coords_setter(heap, snap, Assignable(FALSE, names)))

NextAttach ==
    \/ AttachNone
    \/ AttachNames1

SpecAttach == InitAttach /\ [][NextAttach]_vars

\* C20: assigning to an array a coordinate sequence whose length differs from
\* the array's number of dimensions raises CoordinateError and leaves the
\* coordinates assigned before in place; assigning None sets the coordinates
\* to one UndefAxis per dimension; after every successful assignment
\* len(coords) equals the number of dimensions.
C20_AssignCoords ==
    upd.op = "assign" =>
        /\ (~upd.value.isNone /\ Len(upd.value.names) # Len(snap)) =>
              (upd.err = "CoordinateError" /\ orig = upd.before /\ phase = upd.was)
        /\ upd.value.isNone =>
              /\ upd.err = ""
              /\ Len(orig) = Len(snap)
              /\ \A k \in 1..Len(orig) : IsUndef(heap, orig[k])
        /\ upd.err = "" => (phase = "set" /\ Len(orig) = Len(snap))

\* ------------------------------------------------- slicing one axis's index
MaxIndexSize == 4
MaxSlices == 2

\* Slices applied to an axis: start None or 1, stop None, 3 or -1, and the
\* steps 1, 2, 3, -1, -3
IndexSlices ==
    {Slice(hs, IF hs THEN 1 ELSE 0, b # 0, b, st) :
        hs \in BOOLEAN, b \in {0, 3, 0 - 1}, st \in {1, 2, 3, 0 - 1, 0 - 3}}

\* The record of a slice_axis call: the Index before, the Index of the axis
\* returned (the Index before when the call raised), the size n of the array
\* dimension before
SliceOut(op, sl, err, before, after, n) ==
    [op |-> op, sl |-> sl, err |-> err, before |-> before, after |-> after, n |-> n]

\* An array dimension of size n with the axis Axis.from_size("t", n)
InitIndexWith(H, n) ==
    /\ heap = H
    /\ orig = <<Len(H.ax)>>
    /\ out = SliceOut("none", SliceAll, "", H.ix[Len(H.ix)], H.ix[Len(H.ix)], n)
    /\ phase = "start"
    /\ snap = n
    /\ nupd = 0
    /\ upd = NoUpd

InitIndex == \E n \in 1..MaxIndexSize : InitIndexWith(Axis_from_size(EmptyHeap, "t", n), n)

\* axis.scale = value before anything is sliced
ScaleSet(value, r) ==
    /\ heap' = r.H
    /\ upd' = [op |-> "scale", err |-> r.err]
    /\ out' = [out EXCEPT !.before = r.H.ix[r.H.ax[orig[1]].index],
                          !.after = r.H.ix[r.H.ax[orig[1]].index]]
    /\ phase' = "scaled"
    /\ UNCHANGED <<orig, snap, nupd>>

SetAxisScale ==
    /\ phase = "start"
    /\ \E value \in {2, 3} : ScaleSet(value, Axis_set_scale(heap, orig[1], value))

\* The array is indexed along the dimension with slice sl: the dimension keeps
\* the positions range(n)[sl], the axis becomes axis.slice_axis(sl).  When
\* slice_axis raises, the indexing raises and the array is as before.
AxisSliced(sl, I, r) ==
    /\ heap' = r.H
    /\ orig' = IF r.err = "" THEN <<r.ref>> ELSE orig
    /\ snap' = IF r.err = "" THEN Len(SlicePositions(sl, snap)) ELSE snap
    /\ out' = SliceOut("slice_axis", sl, r.err, I,
                       r.H.ix[r.H.ax[r.ref].index], snap)
    /\ phase' = "sliced"
    /\ nupd' = nupd + 1
    /\ UNCHANGED upd

SliceAxis ==
    /\ nupd < MaxSlices
    /\ \E sl \in IndexSlices :
        AxisSliced(sl, heap.ix[heap.ax[orig[1]].index],
                   Axis_slice_axis(heap, orig[1], CSlice(sl)))

NextIndex ==
    \/ SetAxisScale
    \/ SliceAxis

SpecIndex == InitIndex /\ [][NextIndex]_vars

\* C21: for every axis whose index has the size n of its array dimension and
\* every slice s, the index of Axis.slice_axis(s) has as many entries as s
\* selects positions from range(n).
C21_SlicedSizeIsSelected ==
    (out.op = "slice_axis" /\ out.err = "" /\ get_size(out.before) = out.n) =>
        get_size(out.after) = Len(SlicePositions(out.sl, out.n))

\* The coordinate of a ScaledIndex at position k: start + k * step
CoordinateAt(I, k) == I.start + k * I.step

\* C22: for every ScaledIndex I and slice s, the k-th coordinate of I[s] is the
\* coordinate of I at the k-th position s selects, for every k below the
\* sliced size.
C22_SlicedCoordinates ==
    (out.op = "slice_axis" /\ out.err = "" /\ out.before.kind = "scaled") =>
        \A k \in 1..Min(get_size(out.after),
                        Len(SlicePositions(out.sl, get_size(out.before)))) :
            CoordinateAt(out.after, k - 1)
                = CoordinateAt(out.before,
                               SlicePositions(out.sl, get_size(out.before))[k])

Abs(x) == IF x < 0 THEN 0 - x ELSE x

\* C23: slicing an axis of positive scale with step s gives an axis whose scale
\* is |s| times the scale before (the same scale for steps 1 and -1), and that
\* scale is positive.
C23_ScaleTimesStep ==
    (out.op = "slice_axis" /\ out.err = "" /\ get_scale(out.before) > 0) =>
        /\ get_scale(out.after) = Abs(out.sl.step) * get_scale(out.before)
        /\ get_scale(out.after) > 0

\* ------------------------------------------- CategoricalIndex.to_indexer
MaxLabels == 3

Labels == {"a", "b", "c"}
NoLabel == ""

\* self._hash_map[label]: setdefault keeps the first position of a label.
\* [err, val], positions counted from 0
hash_map_get(I, label) ==
    IF \E k \in 1..Len(I.labels) : I.labels[k] = label
    THEN [err |-> "",
          val |-> (CHOOSE k \in 1..Len(I.labels) :
                      /\ I.labels[k] = label
                      /\ \A j \in 1..(k - 1) : I.labels[j] # label) - 1]
    ELSE [err |-> "KeyError", val |-> 0]

\* CategoricalIndex.has_duplicate: len(self._labels) != len(self._hash_map)
has_duplicate(I) == Len(I.labels) # Cardinality(Range(I.labels))

\* The key of to_indexer: a label, or a slice whose start and stop are labels
\* (hs / he FALSE for None)
LabelKey(isSlice, label, sl) == [isSlice |-> isSlice, label |-> label, sl |-> sl]

\* CategoricalIndex.to_indexer(coords): [err, val, sl]
to_indexer(I, coords) ==
    IF has_duplicate(I)
    THEN [err |-> "ValueError", val |-> 0, sl |-> SliceAll]
    ELSE IF coords.isSlice
    THEN LET a == hash_map_get(I, coords.sl.start)
             b == hash_map_get(I, coords.sl.stop)
         IN IF coords.sl.hs /\ a.err # ""
            THEN [err |-> a.err, val |-> 0, sl |-> SliceAll]
            ELSE IF coords.sl.he /\ b.err # ""
            THEN [err |-> b.err, val |-> 0, sl |-> SliceAll]
            ELSE [err |-> "", val |-> 0,
                  sl |-> Slice(coords.sl.hs, IF coords.sl.hs THEN a.val ELSE 0,
                               coords.sl.he, IF coords.sl.he THEN b.val ELSE 0,
                               coords.sl.step)]
    ELSE [err |-> hash_map_get(I, coords.label).err,
          val |-> hash_map_get(I, coords.label).val, sl |-> SliceAll]

LookupLabels == Labels \cup {"q"}

LabelSlices ==
    {Slice(a # NoLabel, a, b # NoLabel, b, st) :
        a \in LookupLabels \cup {NoLabel}, b \in LookupLabels \cup {NoLabel},
        st \in {1, 2, 0 - 1}}

LookupOut(op, coords, r) ==
    [op |-> op, coords |-> coords, err |-> r.err, val |-> r.val, sl |-> r.sl]

\* An axis is given labels: as_index(labels, size) makes a CategoricalIndex
InitLookupWith(H) ==
    /\ heap = H
    /\ orig = <<Len(H.ax)>>
    /\ out = LookupOut("none", LabelKey(FALSE, NoLabel, SliceAll),
                       [err |-> "", val |-> 0, sl |-> SliceAll])
    /\ phase = "start"
    /\ snap = <<>>
    /\ nupd = 0
    /\ upd = NoUpd

InitLookup ==
    \E labels \in SeqsUpTo(Labels, MaxLabels) :
        InitLookupWith(AllocAxis(AllocIndex(EmptyHeap,
                                            CategoricalIndex(labels, NO_SCALE, UnitNone)),
                                 "t", FALSE, 1))

LookedUp(coords, r) ==
    /\ out' = LookupOut("to_indexer", coords, r)
    /\ phase' = "done"
    /\ UNCHANGED <<heap, orig, snap, nupd, upd>>

\* axis.index.to_indexer(label)
ToIndexerLabel ==
    /\ phase = "start"
    /\ \E label \in LookupLabels :
        LookedUp(LabelKey(FALSE, label, SliceAll),
                 to_indexer(heap.ix[heap.ax[orig[1]].index],
                            LabelKey(FALSE, label, SliceAll)))

\* axis.index.to_indexer(slice(start, stop, step))
ToIndexerSlice ==
    /\ phase = "start"
    /\ \E sl \in LabelSlices :
        LookedUp(LabelKey(TRUE, NoLabel, sl),
                 to_indexer(heap.ix[heap.ax[orig[1]].index],
                            LabelKey(TRUE, NoLabel, sl)))

NextLookup ==
    \/ ToIndexerLabel
    \/ ToIndexerSlice

SpecLookup == InitLookup /\ [][NextLookup]_vars

\* The labels of the axis looked up
LabelsAtHand == heap.ix[heap.ax[orig[1]].index].labels

\* The first position (from 0) of a label that occurs in the labels
FirstPosition(labels, label) ==
    (CHOOSE k \in 1..Len(labels) :
        labels[k] = label /\ \A j \in 1..(k - 1) : labels[j] # label) - 1

\* C24: to_indexer on a scalar label returns the first position of the label,
\* also when the labels contain duplicates, and fails when the label is
\* absent; on a slice it fails whenever the labels contain a duplicate and
\* otherwise maps the start and stop labels to their positions, keeping the
\* step.
C24_LookupFirstSliceUnique ==
    out.op = "to_indexer" =>
        /\ (~out.coords.isSlice /\ out.coords.label \in Range(LabelsAtHand)) =>
              (out.err = "" /\ out.val = FirstPosition(LabelsAtHand, out.coords.label))
        /\ (~out.coords.isSlice /\ out.coords.label \notin Range(LabelsAtHand)) =>
              out.err # ""
        /\ (out.coords.isSlice /\ Len(LabelsAtHand) # Cardinality(Range(LabelsAtHand))) =>
              out.err # ""
        /\ (out.coords.isSlice /\ out.err = "") =>
              /\ out.sl.step = out.coords.sl.step
              /\ out.sl.hs = out.coords.sl.hs /\ out.sl.he = out.coords.sl.he
              /\ out.sl.hs => out.sl.start = FirstPosition(LabelsAtHand, out.coords.sl.start)
              /\ out.sl.he => out.sl.stop = FirstPosition(LabelsAtHand, out.coords.sl.stop)

\* ------------------------------------------------------------- add_axes
MaxMaskNdim == 3

\* An array value as the stacking loops see it: one entry per dimension, with
\* the name of the axis the dimension ranges over, its size, and whether it is
\* a dimension of the operand (own) or one made by np.stack
Dim(name, size, own) == [name |-> name, size |-> size, own |-> own]

\* key.shape / out.shape
ShapeOf(dims) == [k \in 1..Len(dims) |-> dims[k].size]

\* np.stack([key] * n, axis=i) with i counted from 0: [err, dims]
np_stack(dims, name, n, i) ==
    IF n = 0 THEN [err |-> "ValueError", dims |-> dims]
    ELSE IF i > Len(dims) THEN [err |-> "AxisError", dims |-> dims]
    ELSE [err |-> "",
          dims |-> SubSeq(dims, 1, i) \o <<Dim(name, n, FALSE)>>
                   \o SubSeq(dims, i + 1, Len(dims))]

\* for i, o in enumerate(axes): if o not in key_axes: key = np.stack(...);
\* same = key is still the object passed in
RECURSIVE add_axes_loop(_, _, _, _, _, _, _)
add_axes_loop(H, axes, shape, key_axes, i, dims, same) ==
    IF i > Len(axes) THEN [err |-> "", dims |-> dims, same |-> same]
    ELSE IF PyIn(H, axes[i], key_axes)
    THEN add_axes_loop(H, axes, shape, key_axes, i + 1, dims, same)
    ELSE IF np_stack(dims, StrOf(H, axes[i]), shape[i], i - 1).err # ""
    THEN [err |-> np_stack(dims, StrOf(H, axes[i]), shape[i], i - 1).err,
          dims |-> dims, same |-> FALSE]
    ELSE add_axes_loop(H, axes, shape, key_axes, i + 1,
                       np_stack(dims, StrOf(H, axes[i]), shape[i], i - 1).dims, FALSE)

\* add_axes(axes, shape, key, key_axes): [err, dims, same]; same = the key
\* itself is returned
add_axes(H, axes, shape, key, key_axes) ==
    IF shape = ShapeOf(key) THEN [err |-> "", dims |-> key, same |-> TRUE]
    ELSE add_axes_loop(H, axes, shape, key_axes, 1, key, TRUE)

\* Lists of distinct axis names, as the coordinates of an array with defined
\* axes
DefinedNames == {ns \in SeqsUpTo(AxisNames, MaxMaskNdim) : NameUnique(ns)}

\* The size the target gives an axis; AxisSize for an axis it does not have
SizeIn(names, shape, n) ==
    IF PosOf(names, n) = 0 THEN AxisSize ELSE shape[PosOf(names, n)]

\* A boolean CoordsArray with the given axes: its dimensions, all its own
MaskDims(names, shape, mask) ==
    [k \in 1..Len(mask) |-> Dim(mask[k], SizeIn(names, shape, mask[k]), TRUE)]

MaskOut(op, mask, r) ==
    [op |-> op, mask |-> mask, err |-> r.err, dims |-> r.dims, same |-> r.same]

\* The target array: coordinates from_iterable(names, shape)
InitMaskWith(r, shape) ==
    /\ heap = r.H
    /\ orig = r.list
    /\ snap = shape
    /\ out = MaskOut("none", <<>>, [err |-> "", dims |-> <<>>, same |-> FALSE])
    /\ phase = "start"
    /\ nupd = 0
    /\ upd = NoUpd

InitMask ==
    \E names \in DefinedNames :
        \E shape \in [1..Len(names) -> {SmallSize, AxisSize}] :
            InitMaskWith(Coordinates_from_iterable(EmptyHeap, names), shape)

MaskAdded(mask, H, r) ==
    /\ heap' = H
    /\ out' = MaskOut("add_axes", mask, r)
    /\ phase' = "done"
    /\ UNCHANGED <<orig, snap, nupd, upd>>

AddAxesWith(mask, m) ==
    MaskAdded(mask, m.H,
              add_axes(m.H, orig, snap, MaskDims(Names0(heap, orig), snap, mask), m.list))

\* CoordsArray.__setitem__ with a boolean CoordsArray key:
\* axesop.add_axes(self.coords, self.shape, key, key.coords)
SetItemMask ==
    /\ phase = "start"
    /\ \E mask \in DefinedNames :
        AddAxesWith(mask, Coordinates_from_iterable(heap, mask))

NextMask == SetItemMask

SpecMask == InitMask /\ [][NextMask]_vars

\* Index vectors (from 0) of an array of the given shape
Positions(shape) ==
    {v \in [1..Len(shape) -> 0..(Max(SmallSize, AxisSize) - 1)] :
        \A k \in 1..Len(shape) : v[k] < shape[k]}

\* Which element of the operand the element at index vector v of the stacked
\* value is: the operand's index along each of its own axes
Element(dims, v) ==
    [n \in {dims[k].name : k \in {j \in 1..Len(dims) : dims[j].own}} |->
        v[CHOOSE k \in 1..Len(dims) : dims[k].own /\ dims[k].name = n]]

\* The element of the operand with axes `names` that target position v (over
\* target axes `target`) restricts to, matching axes by name
ElementByName(target, names, v) ==
    [n \in Range(names) |-> v[PosOf(target, n)]]

\* C25: when all axes of a boolean mask are axes of the target (in any order,
\* with the target's sizes), add_axes returns a mask whose shape is the
\* target's shape and whose value at every target position is the mask's value
\* at that position restricted to the mask's axes by name.
C25_MaskMatchesTarget ==
    (out.op = "add_axes" /\ Range(out.mask) \subseteq Range(Names0(heap, orig))) =>
        /\ out.err = ""
        /\ ShapeOf(out.dims) = snap
        /\ \A v \in Positions(snap) :
              Element(out.dims, v) = ElementByName(Names0(heap, orig), out.mask, v)

\* ------------------------------------------------------------ Space.zeros
MaxSpaceNdim == 3

\* A None entry of a partial shape
NoSize == 0 - 1

\* dict(items).keys(): the keys in the order of their first insertion
RECURSIVE DictKeys(_)
DictKeys(ks) ==
    IF ks = <<>> THEN <<>>
    ELSE LET front == DictKeys(SubSeq(ks, 1, Len(ks) - 1))
         IN IF ks[Len(ks)] \in Range(front) THEN front
            ELSE Append(front, ks[Len(ks)])

\* An index as list.__getitem__ reads it: True is 1 and False is 0
AsListIndex(accepted) == IF accepted THEN 1 ELSE 0

\* IndexedMap.subset(indices): IndexedMap(self.item_at(i) for i in indices),
\* item_at(i) reads self._keys[i].  [err, keys]
IndexedMap_subset(keys, indices) ==
    IF \E k \in 1..Len(indices) : PyItem(keys, indices[k]).err # ""
    THEN [err |-> "IndexError", keys |-> <<>>]
    ELSE [err |-> "",
          keys |-> DictKeys([k \in 1..Len(indices) |-> PyItem(keys, indices[k]).val])]

\* tuple(size for size in shape if size is not None)
GivenSizes(shape) == SelectSeq(shape, LAMBDA size : size # NoSize)

\* _normaize_shape_and_options(shape, options) for a tuple shape:
\* [err, shape, keys]
_normaize_shape_and_options(shape, keys) ==
    IF Len(shape) # Len(keys)
    THEN [err |-> "ValueError", shape |-> <<>>, keys |-> <<>>]
    ELSE [err |-> IndexedMap_subset(
                      keys, [k \in 1..Len(shape) |-> AsListIndex(shape[k] # NoSize)]).err,
          shape |-> GivenSizes(shape),
          keys |-> IndexedMap_subset(
                      keys, [k \in 1..Len(shape) |-> AsListIndex(shape[k] # NoSize)]).keys]

\* Coordinates.from_dict(input, shape): after the length check every axis is
\* built with Axis(a, metric=...), a keyword Axis.__init__ does not take.
\* [err, H, list]
Coordinates_from_dict(H, input, shape) ==
    IF Len(input) # Len(shape) THEN [err |-> "CoordinateError", H |-> H, list |-> <<>>]
    ELSE IF input = <<>> THEN [err |-> "", H |-> H, list |-> <<>>]
    ELSE [err |-> "TypeError", H |-> H, list |-> <<>>]

\* Space.zeros(shape): [err, H, list, shape]
Space_zeros_of(H, n) ==
    IF n.err # "" THEN [err |-> n.err, H |-> H, list |-> <<>>, shape |-> <<>>]
    ELSE [err |-> Coordinates_from_dict(H, n.keys, n.shape).err,
          H |-> Coordinates_from_dict(H, n.keys, n.shape).H,
          list |-> Coordinates_from_dict(H, n.keys, n.shape).list,
          shape |-> IF Coordinates_from_dict(H, n.keys, n.shape).err = ""
                    THEN n.shape ELSE <<>>]

Space_zeros(H, keys, shape) ==
    Space_zeros_of(H, _normaize_shape_and_options(shape, keys))

SpaceOut(op, shape, n, r) ==
    [op |-> op, shape |-> shape, nerr |-> n.err, nshape |-> n.shape, nkeys |-> n.keys,
     err |-> r.err, list |-> r.list, rshape |-> r.shape]

\* Space(names): the axes of the space are snap
InitSpace ==
    /\ snap \in {ns \in SeqsUpTo(AxisNames, MaxSpaceNdim) : ns # <<>> /\ NameUnique(ns)}
    /\ heap = EmptyHeap
    /\ orig = <<>>
    /\ out = SpaceOut("none", <<>>, [err |-> "", shape |-> <<>>, keys |-> <<>>],
                      [err |-> "", list |-> <<>>, shape |-> <<>>])
    /\ phase = "start"
    /\ nupd = 0
    /\ upd = NoUpd

ArrayBuilt(shape, n, r) ==
    /\ heap' = r.H
    /\ out' = SpaceOut("zeros", shape, n, r)
    /\ phase' = "done"
    /\ UNCHANGED <<orig, snap, nupd, upd>>

\* space.zeros(shape) with a shape of the space's length
Zeros ==
    /\ phase = "start"
    /\ \E shape \in [1..Len(snap) -> {NoSize, SmallSize, AxisSize}] :
        ArrayBuilt(shape, _normaize_shape_and_options(shape, snap),
                   Space_zeros(heap, snap, shape))

NextSpace == Zeros

SpecSpace == InitSpace /\ [][NextSpace]_vars

\* The axes of the space at the positions where the shape gives a size
AxesGiven(axes, shape) ==
    SelectSeq(axes, LAMBDA n : shape[PosOf(axes, n)] # NoSize)

\* C26: the array Space.zeros builds from a shape of the space's length has the
\* non-None sizes as its shape and exactly the space's axes at the non-None
\* positions, in the space's order.
C26_ZerosKeepsGivenAxes ==
    out.op = "zeros" =>
        /\ out.err = ""
        /\ out.rshape = GivenSizes(out.shape)
        /\ Names0(heap, out.list) = AxesGiven(snap, out.shape)

\* ------------------------------------------- slice_axes: the expanded key
\* slice_axes, the tuple branch up to _keys: [err, keys]
slice_axes_keys(n, comps) ==
    IF IndexRaises(comps) THEN [err |-> "ValueError", keys |-> <<>>]
    ELSE [err |-> "", keys |-> ExpandKey(n, comps)]

ExpandOut(op, key, r) == [op |-> op, key |-> key, err |-> r.err, keys |-> r.keys]

InitExpandWith(r) ==
    /\ heap = r.H
    /\ orig = r.list
    /\ out = ExpandOut("none", NoKey, [err |-> "", keys |-> <<>>])
    /\ phase = "start"
    /\ snap = <<>>
    /\ nupd = 0
    /\ upd = NoUpd

InitExpand ==
    \E names \in CoordsInputs : InitExpandWith(Coordinates_from_iterable(EmptyHeap, names))

\* slice_axes(coords, key) with a tuple key has built _keys, or raised
ExpandTuple ==
    /\ phase = "start"
    /\ \E cs \in SeqsUpTo(KeyComps, MaxKeyLen) :
        /\ out' = ExpandOut("slice_axes", Key(TRUE, cs), slice_axes_keys(Len(orig), cs))
        /\ phase' = "done"
        /\ UNCHANGED <<heap, orig, snap, nupd, upd>>

NextExpand == ExpandTuple

SpecExpand == InitExpand /\ [][NextExpand]_vars

\* The tuple has k None components, and at most len(C) components that are
\* neither None nor an ellipsis
FitsCoords(comps, n) ==
    CountKind(comps, "none") + CountKind(comps, "ellipsis") + n >= Len(comps)

\* C27: a tuple key with k None components and at most len(C) other
\* non-ellipsis components is expanded to length len(C) + k: one ellipsis is
\* replaced by slice(None)s with the components before and after it kept in
\* place, a key without ellipsis is right-padded with slice(None); the
\* expanded key has one component that is not None per old axis.
C27_ExpandedKey ==
    (out.op = "slice_axes" /\ FitsCoords(out.key.comps, Len(orig))
        /\ CountKind(out.key.comps, "ellipsis") <= 1) =>
        /\ out.err = ""
        /\ Len(out.keys) = Len(orig) + CountKind(out.key.comps, "none")
        /\ CountKind(out.keys, "none") = CountKind(out.key.comps, "none")
        /\ Len(out.keys) - CountKind(out.keys, "none") = Len(orig)
        /\ CountKind(out.key.comps, "ellipsis") = 0 =>
              /\ SubSeq(out.keys, 1, Len(out.key.comps)) = out.key.comps
              /\ \A i \in (Len(out.key.comps) + 1)..Len(out.keys) :
                    out.keys[i] = CSlice(SliceAll)
        /\ CountKind(out.key.comps, "ellipsis") = 1 =>
              /\ SubSeq(out.keys, 1, FirstEllipsis(out.key.comps) - 1)
                   = SubSeq(out.key.comps, 1, FirstEllipsis(out.key.comps) - 1)
              /\ SubSeq(out.keys,
                        Len(out.keys) - (Len(out.key.comps) - FirstEllipsis(out.key.comps)) + 1,
                        Len(out.keys))
                   = SubSeq(out.key.comps, FirstEllipsis(out.key.comps) + 1,
                            Len(out.key.comps))
              /\ \A i \in FirstEllipsis(out.key.comps)
                            ..(Len(out.keys) - (Len(out.key.comps)
                                                - FirstEllipsis(out.key.comps))) :
                    out.keys[i] = CSlice(SliceAll)

\* ------------------------------------- broadcast_to: the stacked value
\* The stacking loop of broadcast_to on the value: out = np.stack([out] *
\* shape[i], axis=i) for every target axis the array lacks.  [err, dims]
RECURSIVE StackDims(_, _, _, _, _, _)
StackDims(H, current_axes, tgt, shape, i, dims) ==
    IF i > Len(tgt.names) THEN [err |-> "", dims |-> dims]
    ELSE IF ~TargetAxisAbsent(H, tgt, i, current_axes)
    THEN StackDims(H, current_axes, tgt, shape, i + 1, dims)
    ELSE IF np_stack(dims, tgt.names[i], shape[i], i - 1).err # ""
    THEN [err |-> np_stack(dims, tgt.names[i], shape[i], i - 1).err, dims |-> dims]
    ELSE StackDims(H, current_axes, tgt, shape, i + 1,
                   np_stack(dims, tgt.names[i], shape[i], i - 1).dims)

\* self.value of an array with the given axes and shape: all dimensions its own
OwnDims(H, current_axes, self_shape) ==
    [k \in 1..Len(current_axes) |-> Dim(StrOf(H, current_axes[k]), self_shape[k], TRUE)]

\* The value of the array broadcast_to hands back, r being what it returned:
\* self when it returned self, the stacked value otherwise
broadcast_to_value(H, self_shape, current_axes, shape, tgt, r) ==
    IF r.err # "" THEN <<>>
    ELSE IF r.same THEN OwnDims(H, current_axes, self_shape)
    ELSE StackDims(H, current_axes, tgt, shape, 1,
                   OwnDims(H, current_axes, self_shape)).dims

\* The operand: an array with defined axes, each of size SmallSize or AxisSize
InitOperand ==
    \E names \in DefinedNames :
        \E shape \in [1..Len(names) -> {SmallSize, AxisSize}] :
            InitMaskWith(Coordinates_from_iterable(EmptyHeap, names), shape)

ValueOut(op, tgt, shape, r, dims) ==
    [op |-> op, target |-> tgt, shape |-> shape, err |-> r.err, same |-> r.same,
     rshape |-> r.shape, rnames |-> r.names, list |-> r.list, dims |-> dims]

ValueReturned(H, tgt, shape, r) ==
    /\ heap' = H
    /\ out' = ValueOut("broadcast_to", tgt, shape, r,
                       broadcast_to_value(H, snap, orig, shape, tgt, r))
    /\ phase' = "done"
    /\ UNCHANGED <<orig, snap, nupd, upd>>

BroadcastToTargetWith(t, names, shape) ==
    ValueReturned(t.H, Target("coords", t.list, names), shape,
                  broadcast_to(t.H, snap, orig, shape, Target("coords", t.list, names)))

\* arr.broadcast_to(shape, coords) with a Coordinates of defined axes
BroadcastToTarget ==
    /\ phase = "start"
    /\ \E names \in DefinedNames :
        \E shape \in [1..Len(names) -> {SmallSize, AxisSize}] :
            BroadcastToTargetWith(Coordinates_from_iterable(heap, names), names, shape)

NextValue == BroadcastToTarget

SpecValue == InitOperand /\ [][NextValue]_vars

\* Every axis of the operand is in the target and has the size the target
\* shape gives it
OperandFitsTarget ==
    \A k \in 1..Len(orig) :
        /\ PosOf(out.target.names, StrOf(heap, orig[k])) # 0
        /\ out.shape[PosOf(out.target.names, StrOf(heap, orig[k]))] = snap[k]

\* C28: when every axis of the array is in the target and the sizes agree,
\* broadcast_to(shape, coords) returns an array of shape `shape` with
\* coordinates `coords` whose element at every target position is the
\* operand's element at that position restricted to its axes by name, whatever
\* the order of the operand's axes; no array of another shape is returned.
C28_BroadcastToElements ==
    out.op = "broadcast_to" =>
        /\ out.err = "" => ShapeOf(out.dims) = out.shape
        /\ OperandFitsTarget =>
              /\ out.err = ""
              /\ out.rshape = out.shape
              /\ out.rnames = out.target.names
              /\ \A v \in Positions(out.shape) :
                    Element(out.dims, v)
                        = ElementByName(out.target.names, Names0(heap, orig), v)

\* ------------------------------------------- updates naming several axes
\* Mappings {name: coords} of one or two names; the value stands for the
\* new coordinates of the axis
CoordMappings == {ps \in ScaleMappings : \A k \in 1..Len(ps) : ps[k].value = 2}

\* C.update_coords({name: coords, ...})
UpdateCoordsOf ==
    /\ phase \in {"start", "sliced"}
    /\ \E pairs \in CoordMappings :
        Rescaled("update_coords", pairs,
                 [err |-> update_coords(heap, orig,
                              [k \in 1..Len(pairs) |-> pairs[k].name]).err,
                  H |-> update_coords(heap, orig,
                              [k \in 1..Len(pairs) |-> pairs[k].name]).H,
                  same |-> FALSE])

NextUpdate ==
    \/ SliceFirst
    \/ UpdateScalesOf
    \/ UpdateCoordsOf

SpecUpdate == InitScale /\ [][NextUpdate]_vars

\* C29: update_scales and update_coords are all-or-nothing: when a call
\* naming several axes fails because a named axis is absent from the
\* Coordinates or a value is invalid, no axis of the Coordinates has had its
\* scale or index changed by that call.
C29_UpdateAllOrNothing ==
    (upd.op \in {"update_scales", "update_coords"} /\ upd.err # "") =>
        Observe(heap, orig) = snap

\* ------------------------------------------ both orders of an operator
\* The coordinates of the result of self <op> value: inherited from self
OperatorCoords(self_names, r) == IF r.err = "" THEN self_names ELSE <<>>

Swapped(r) ==
    /\ upd' = [op |-> "swapped", err |-> r.err,
               coords |-> OperatorCoords(Names0(heap, orig), r)]
    /\ nupd' = nupd + 1
    /\ UNCHANGED <<heap, orig, out, phase, snap>>

\* arr <op> other, after other <op> arr: arr._broadcast(other)
BinaryOpSwapped ==
    /\ phase = "done" /\ out.op = "binary_op" /\ nupd = 0
    /\ Swapped(Array_broadcast(heap, ArrayShape(orig), orig,
                               ArrayShape(out.target.list), out.target.list))

NextSym ==
    \/ BinaryOp
    \/ BinaryOpSwapped

SpecSym == InitArray /\ [][NextSym]_vars

\* C30: for arrays X and Y with fully defined coordinates where the axes of
\* Y are a subset of the axes of X, both X op Y and Y op X succeed and both
\* results carry the coordinates of X; the operation never succeeds in one
\* operand order and raises CoordinateError in the other.
C30_OperatorSymmetric ==
    (upd.op = "swapped" /\ ~HasUndef(orig) /\ ~HasUndef(out.target.list)
        /\ Range(Names(orig)) \subseteq Range(out.target.names)) =>
        /\ out.err = "" /\ upd.err = ""
        /\ upd.coords = out.target.names
        /\ ~(out.err = "" /\ upd.err = "CoordinateError")
        /\ ~(upd.err = "" /\ out.err = "CoordinateError")

====
